---- MODULE Spec2Model ----
(***************************************************************************)
(* A model of bitstream_tool: the bit reader and writer with their five     *)
(* field encodings (bitstream_util.rs), the syntax tree with its text       *)
(* printer and parser (bitstream_util.rs), the H.264 traversal and the      *)
(* Annex-B driver (h264_parser.rs, main.rs).                                *)
(*                                                                         *)
(* Integers are Rust's: i32 values stay in [MinI32, MaxI32]; an arithmetic  *)
(* overflow panics when the build has overflow checks (the debug profile)   *)
(* and wraps when it has none (the release profile).  The variable          *)
(* overflow_checks is that choice, made once per run.                       *)
(***************************************************************************)
EXTENDS Integers, Sequences, FiniteSets, TLC

VARIABLES
    overflow_checks, \* TRUE: the build panics on arithmetic overflow
    pc,              \* position of the run inside the specification at hand
    bitstream,       \* Vec<u8>: the input of parse_h264 / of the tokenizer
    reader,          \* BitstreamReader {buffer, bit_index}
    writer,          \* BitstreamWriter {buffer, bit_index}
    node,            \* the SyntaxNode / forest / element at hand
    text,            \* the printed text (a sequence of characters)
    arg,             \* the arguments of the operation at hand
    res              \* the result of the operation at hand

vars == <<overflow_checks, pc, bitstream, reader, writer, node, text, arg, res>>

(***************************************************************************)
(* i32 / u8 arithmetic                                                      *)
(***************************************************************************)
MaxI32 == 2147483647
MinI32 == (-MaxI32) - 1

Pow2(k) == 2 ^ k

\* The low 31 bits of an i32, as a natural number.
Low31(x) == IF x >= 0 THEN x ELSE x - MinI32

\* Bit k (0..31) of an i32 in two's complement.
BitOf(x, k) == IF k = 31 THEN (IF x < 0 THEN 1 ELSE 0) ELSE (Low31(x) \div Pow2(k)) % 2

\* a / b and a % b as Rust computes them: the quotient truncates toward zero.
trunc_div(a, b) ==
    LET m == IF b >= 0 THEN b ELSE -b
        t == IF a >= 0 THEN a \div m ELSE (a + (m - 1)) \div m
    IN IF b >= 0 THEN t ELSE -t

trunc_rem(a, b) == a - b * trunc_div(a, b)

\* a + b: ovf says whether the sum leaves the i32 range, val is the wrapped sum.
add_i32(a, b) ==
    IF b >= 0 /\ a > MaxI32 - b
        THEN [ovf |-> TRUE, val |-> (a + MinI32) + (b + MinI32)]
    ELSE IF b < 0 /\ a < MinI32 - b
        THEN [ovf |-> TRUE, val |-> (a - MinI32) + (b - MinI32)]
    ELSE [ovf |-> FALSE, val |-> a + b]

\* -a, wrapped (only MinI32 has no negation).
neg_wrap(a) == IF a = MinI32 THEN MinI32 ELSE -a

\* a - b.
sub_i32(a, b) ==
    IF b = MinI32
        THEN [ovf |-> a >= 0, val |-> IF a >= 0 THEN (a + MinI32) ELSE a - MinI32]
        ELSE add_i32(a, -b)

\* 2 * a and -2 * a.
mul2_i32(a) == add_i32(a, a)

mulneg2_i32(a) ==
    [ovf |-> a > Pow2(30) \/ a < -(Pow2(30) - 1), val |-> neg_wrap(add_i32(a, a).val)]

\* (ret << 1) | bit on i32: the shift drops bit 31 and never panics.
shl1_or(ret, bit) ==
    LET lo  == Low31(ret) % Pow2(30)
        b30 == Low31(ret) \div Pow2(30)
    IN (IF b30 = 1 THEN MinI32 ELSE 0) + (lo * 2 + bit)

\* 1 << k on i32, for k in 0..31.
one_shl(k) == IF k = 31 THEN MinI32 ELSE Pow2(k)

\* (1 << k) | x on i32, for k in 0..31.
or_bit(k, x) ==
    IF BitOf(x, k) = 1 THEN x
    ELSE IF k = 31 THEN x + MinI32 ELSE x + Pow2(k)

\* val >> k on i32 (arithmetic shift), for k in 0..31.
shr_i32(val, k) == IF k = 31 THEN (IF val < 0 THEN -1 ELSE 0) ELSE val \div Pow2(k)

\* i32::leading_zeros.
RECURSIVE bit_width(_)
bit_width(x) == IF x <= 0 THEN 0 ELSE 1 + bit_width(x \div 2)

leading_zeros(x) == IF x < 0 THEN 0 ELSE 32 - bit_width(x)

(***************************************************************************)
(* FieldType                                                                *)
(***************************************************************************)
FieldType == {"Boolean", "UnsignedInt", "SignedInt", "UnsignedExpGolomb", "SignedExpGolomb"}

(***************************************************************************)
(* BitstreamReader                                                          *)
(***************************************************************************)
Some(v) == [k |-> "Some", val |-> v]
None == [k |-> "None", val |-> 0]
Panic == [k |-> "Panic", val |-> 0]

BitstreamReader_new(buffer) == [buffer |-> buffer, bit_index |-> 0]

\* Each reader operation yields [r |-> the reader afterwards, o |-> Some/None/Panic].
peek_bit(r) ==
    IF r.bit_index \div 8 >= Len(r.buffer)
        THEN None
        ELSE LET byte == r.buffer[(r.bit_index \div 8) + 1]
             IN Some((((byte * Pow2(r.bit_index % 8)) % 256) \div 128) % 2)

\* let ret = self.peek_bit()?; self.bit_index += 1; Some(ret)
read_bit_of(r, ret) ==
    IF ret.k = "None"
        THEN [r |-> r, o |-> None]
        ELSE [r |-> [r EXCEPT !.bit_index = @ + 1], o |-> ret]

read_bit(r) == read_bit_of(r, peek_bit(r))

\* for _i in 0..n { ret = (ret << 1) | read_bit()? }, on the loop's state
\* st = [r, ret, i]; b is the bit read in this turn.
RECURSIVE read_bits_loop(_, _)
read_bits_turn(st, b, n) ==
    IF b.o.k = "None" THEN [r |-> b.r, o |-> None]
    ELSE read_bits_loop([r |-> b.r, ret |-> shl1_or(st.ret, b.o.val), i |-> st.i + 1], n)

read_bits_loop(st, n) ==
    IF st.i >= n THEN [r |-> st.r, o |-> Some(st.ret)]
    ELSE read_bits_turn(st, read_bit(st.r), n)

read_bits(r, n, init_val) ==
    IF n > 64 THEN [r |-> r, o |-> Panic]
    ELSE read_bits_loop([r |-> r, ret |-> init_val, i |-> 0], n)

\* The accumulator SignedInt starts from, given the sign bit.
sign_init_m(sign) == 0
sign_init(sign) == IF sign = 1 THEN -1 ELSE 0

\* n - 1 on u8.
u8_pred(n) == IF n = 0 THEN [ovf |-> TRUE, val |-> 255] ELSE [ovf |-> FALSE, val |-> n - 1]

\* The leading zero bits of an exp-Golomb code: len is a u8 counter, b the bit
\* read in this turn.
RECURSIVE ue_prefix(_, _)
ue_prefix_turn(b, len) ==
    IF b.o.k = "None" THEN [r |-> b.r, o |-> None]
    ELSE IF b.o.val # 0 THEN [r |-> b.r, o |-> Some(len)]
    ELSE IF len = 255
         THEN (IF overflow_checks THEN [r |-> b.r, o |-> Panic] ELSE ue_prefix(b.r, 0))
         ELSE ue_prefix(b.r, len + 1)

ue_prefix(r, len) == ue_prefix_turn(read_bit(r), len)

\* ((1 << len) | x) - 1, given the already shifted 1 << len.
ue_value_m(k, x) == [ovf |-> FALSE, val |-> or_bit(k, x)]
ue_value(k, x) == sub_i32(or_bit(k, x), 1)

\* The signed value of the exp-Golomb code number val.
se_value(val) == IF trunc_rem(val, 2) = 1 THEN trunc_div(val, 2) + 1 ELSE trunc_div(val, -2)

\* Some(((1 << len) | self.read(UnsignedInt, len)?) - 1), where p is the result
\* of the prefix loop, x of the read and v of the arithmetic.
read_ue_value(x, v) ==
    IF v.ovf /\ overflow_checks THEN [r |-> x.r, o |-> Panic]
    ELSE [r |-> x.r, o |-> Some(v.val)]

read_ue_suffix(p, x) ==
    IF x.o.k # "Some" THEN x
    ELSE read_ue_value(x, ue_value(p.o.val % 32, x.o.val))

read_ue_code(p) ==
    IF p.o.k # "Some" THEN p
    ELSE IF p.o.val >= 32 /\ overflow_checks THEN [r |-> p.r, o |-> Panic]
    ELSE read_ue_suffix(p, read_bits(p.r, p.o.val, 0))

read_ue(r) == read_ue_code(ue_prefix(r, 0))

\* let sign = self.read_bit()?; self.read_bits(n-1, if sign == 1 { -1 } else { 0 })
read_signed(sign, n) ==
    IF sign.o.k = "None" THEN sign
    ELSE IF u8_pred(n).ovf /\ overflow_checks THEN [r |-> sign.r, o |-> Panic]
    ELSE read_bits(sign.r, u8_pred(n).val, sign_init(sign.o.val))

\* let val = self.read(UnsignedExpGolomb, 0)?; then the signed value of val
read_se(val) ==
    IF val.o.k # "Some" THEN val
    ELSE [r |-> val.r, o |-> Some(se_value(val.o.val))]

read(r, field_type, n) ==
    CASE field_type = "Boolean" -> read_bit(r)
      [] field_type = "UnsignedInt" -> read_bits(r, n, 0)
      [] field_type = "SignedInt" -> read_signed(read_bit(r), n)
      [] field_type = "UnsignedExpGolomb" -> read_ue(r)
      [] field_type = "SignedExpGolomb" -> read_se(read_ue(r))

(***************************************************************************)
(* BitstreamWriter                                                          *)
(***************************************************************************)
BitstreamWriter_new == [buffer |-> <<>>, bit_index |-> 0]

\* byte | (bit << k) on u8.
or_u8(byte, bit, k) == IF bit = 1 /\ (byte \div Pow2(k)) % 2 = 0 THEN byte + Pow2(k) ELSE byte

RECURSIVE push_zeros(_, _)
push_zeros(buffer, byte_index) ==
    IF byte_index >= Len(buffer) THEN push_zeros(Append(buffer, 0), byte_index) ELSE buffer

write_bit(w, bit) ==
    LET byte_index == w.bit_index \div 8
    IN [buffer |-> [push_zeros(w.buffer, byte_index)
                        EXCEPT ![byte_index + 1] = or_u8(@, bit, 7 - (w.bit_index % 8))],
        bit_index |-> w.bit_index + 1]

\* Each writer operation yields [w |-> the writer afterwards, panic |-> BOOLEAN].
\* The fixed-width loop, for i in 0..n { write_bit(((val >> (n-1-i)) & 1) != 0) },
\* on the loop's state st = [w, i].
RECURSIVE write_fixed_loop(_, _, _)
write_fixed_loop(st, n, val) ==
    IF st.i >= n THEN [w |-> st.w, panic |-> FALSE]
    ELSE LET sh == n - 1 - st.i
         IN IF sh >= 32 /\ overflow_checks THEN [w |-> st.w, panic |-> TRUE]
            ELSE write_fixed_loop([w |-> write_bit(st.w, shr_i32(val, sh % 32) % 2),
                                   i |-> st.i + 1], n, val)

write_fixed(w, n, val) == write_fixed_loop([w |-> w, i |-> 0], n, val)

\* The code number of a signed exp-Golomb value.
se_code_m(val) == IF val > 0 THEN mul2_i32(val) ELSE mulneg2_i32(val)
se_code_pos(d) == [ovf |-> d.ovf \/ sub_i32(d.val, 1).ovf, val |-> sub_i32(d.val, 1).val]
se_code(val) == IF val > 0 THEN se_code_pos(mul2_i32(val)) ELSE mulneg2_i32(val)

\* The unary prefix of an exp-Golomb code has num_len - 1 zero bits.
ue_prefix_len(num_len) == num_len - 1

\* let num_len = 32 - (val+1).leading_zeros(); write num_len - 1 zero bits, then
\* the num_len bits of val + 1.  v1 is val + 1, z the writer after the zeros.
write_ue_number(z, num_len, v1) ==
    IF z.panic THEN z ELSE write_fixed(z.w, num_len, v1.val)

write_ue_code(w, v1, num_len) ==
    IF v1.ovf /\ overflow_checks THEN [w |-> w, panic |-> TRUE]
    ELSE IF num_len = 0 THEN [w |-> w, panic |-> TRUE]
    ELSE write_ue_number(write_fixed(w, ue_prefix_len(num_len), 0), num_len, v1)

write_ue_of(w, v1) == write_ue_code(w, v1, 32 - leading_zeros(v1.val))

write_ue(w, val) == write_ue_of(w, add_i32(val, 1))

\* self.write(UnsignedExpGolomb, 0, c) for the code number c of the value
write_se(w, c) ==
    IF c.ovf /\ overflow_checks THEN [w |-> w, panic |-> TRUE]
    ELSE write_ue(w, c.val)

write(w, field_type, n, val) ==
    IF n > 64 THEN [w |-> w, panic |-> TRUE]
    ELSE CASE field_type = "Boolean" ->
                [w |-> write_bit(w, IF val # 0 THEN 1 ELSE 0), panic |-> FALSE]
           [] field_type = "UnsignedExpGolomb" -> write_ue(w, val)
           [] field_type = "SignedExpGolomb" -> write_se(w, se_code(val))
           [] OTHER -> write_fixed(w, n, val)

(***************************************************************************)
(* SyntaxElement                                                            *)
(***************************************************************************)
Field(name, val) == [kind |-> "Field", name |-> name, val |-> val]
Node(name, children) == [kind |-> "Node", name |-> name, children |-> children]
Payload(name, data) == [kind |-> "Payload", name |-> name, data |-> data]

(***************************************************************************)
(* BitstreamProcessor.  A traversal threads one record through its calls:   *)
(*   mode   "reader" or "writer", the implementation in use                 *)
(*   r, w   the BitstreamReader / the BitstreamWriter                       *)
(*   stack  the nodes being visited, the innermost last: the `node`         *)
(*          argument of a call is the last one                              *)
(*   state  the H264State                                                   *)
(*   ret    the i32 the last field() returned                               *)
(*   more   the bool the last more_data() returned                          *)
(*   panic  "" while the run is alive, else the kind of the fatal error     *)
(*   at     the name the fatal error reports                                *)
(*   left   the children left behind in the nodes the writer has visited    *)
(* A call on a run that has panicked changes nothing.                       *)
(***************************************************************************)
Top(ps) == ps.stack[Len(ps.stack)]

SetTop(ps, n) == [ps EXCEPT !.stack[Len(ps.stack)] = n]

PushChild(ps, child) == SetTop(ps, [Top(ps) EXCEPT !.children = Append(@, child)])

Die(ps, kind, name) == [ps EXCEPT !.panic = kind, !.at = name]

\* impl BitstreamProcessor for BitstreamReader
\* x is the result of self.read(field_type, n).
reader_field_of(ps, name, x) ==
    IF x.o.k = "None" THEN Die([ps EXCEPT !.r = x.r], "ended", name)
    ELSE IF x.o.k = "Panic" THEN Die([ps EXCEPT !.r = x.r], "arithmetic", name)
    ELSE [PushChild(ps, Field(name, x.o.val)) EXCEPT !.r = x.r, !.ret = x.o.val]

reader_field(ps, name, field_type, n) == reader_field_of(ps, name, read(ps.r, field_type, n))

\* The bytes buffer[from..], from a 0-based index.
BytesFrom(buffer, from) == SubSeq(buffer, from + 1, Len(buffer))

\* x is the result of self.read(UnsignedInt, 8 - bit_index % 8), the rest of the
\* current byte.
reader_payload_of(ps, name, x) ==
    IF x.o.k # "Some" THEN Die([ps EXCEPT !.r = x.r], "unwrap", name)
    ELSE [PushChild(ps, Payload(name, <<x.o.val>> \o BytesFrom(x.r.buffer, x.r.bit_index \div 8)))
            EXCEPT !.r = x.r]

reader_payload(ps, name) ==
    IF ps.r.bit_index % 8 # 0
        THEN reader_payload_of(ps, name, read(ps.r, "UnsignedInt", 8 - (ps.r.bit_index % 8)))
        ELSE PushChild(ps, Payload(name, BytesFrom(ps.r.buffer, ps.r.bit_index \div 8)))

\* u8::count_ones
RECURSIVE count_ones(_)
count_ones(b) == IF b = 0 THEN 0 ELSE (b % 2) + count_ones(b \div 2)

\* (1 << k) - 1 on u8, for the shift count k = 8 - bit_index % 8 in 1..8: a shift
\* by 8 overflows u8; unchecked, the count is taken modulo 8.
low_mask(k) == [ovf |-> k >= 8, val |-> Pow2(k % 8) - 1]

\* byte & mask on u8, for a mask (1 << k) - 1.
and_mask(byte, mask) == byte % (mask + 1)

\* What remains of the last byte decides more_data.
trailing_test(rest) == count_ones(rest) # 1

\* The test on the last byte, for the mask (1 << (8 - bit_index % 8)) - 1.
reader_more_data_of(ps, mask) ==
    IF mask.ovf /\ overflow_checks THEN Die(ps, "arithmetic", "more_data")
    ELSE [ps EXCEPT !.more = trailing_test(and_mask(ps.r.buffer[Len(ps.r.buffer)], mask.val))]

reader_more_data(ps) ==
    LET len == Len(ps.r.buffer)
        byte == ps.r.bit_index \div 8
    IN IF len = 0
          THEN (IF overflow_checks THEN Die(ps, "arithmetic", "more_data")
                ELSE [ps EXCEPT !.more = TRUE])
       ELSE IF byte = len - 1 THEN reader_more_data_of(ps, low_mask(8 - (ps.r.bit_index % 8)))
       ELSE IF byte < len - 1 THEN [ps EXCEPT !.more = TRUE]
       ELSE [ps EXCEPT !.more = FALSE]

\* impl BitstreamProcessor for BitstreamWriter
\* node.children.pop_front() must be an element of the given kind and name.
writer_pop_of_m(ps, popped, name, kind) ==
    IF Top(ps).children[1].kind # kind THEN Die(popped, "invalid", name) ELSE popped

writer_pop_of(ps, popped, name, kind) ==
    IF Top(ps).children[1].kind # kind THEN Die(popped, "invalid", name)
    ELSE IF Top(ps).children[1].name # name THEN Die(popped, "name", name)
    ELSE popped

writer_pop(ps, name, kind) ==
    IF Len(Top(ps).children) = 0 THEN Die(ps, "nothing", name)
    ELSE writer_pop_of(ps, SetTop(ps, [Top(ps) EXCEPT !.children = Tail(@)]), name, kind)

\* The child writer_pop took.
Popped(ps) == Top(ps).children[1]

\* self.write(field_type, n, child.val); child.val, where x is the result of
\* the write.
writer_field_written(ps, popped, name, x) ==
    IF x.panic THEN Die([popped EXCEPT !.w = x.w], "arithmetic", name)
    ELSE [popped EXCEPT !.w = x.w, !.ret = Popped(ps).val]

writer_field_of(ps, popped, name, field_type, n) ==
    IF popped.panic # "" THEN popped
    ELSE writer_field_written(ps, popped, name, write(ps.w, field_type, n, Popped(ps).val))

writer_field(ps, name, field_type, n) ==
    writer_field_of(ps, writer_pop(ps, name, "Field"), name, field_type, n)

\* for i in start_idx..child.data.len() { write(UnsignedInt, 8, data[i]) }, on the
\* loop's state st = [w, i] (i counts from 1 here).
RECURSIVE write_bytes(_, _)
write_bytes(st, data) ==
    IF st.i > Len(data) THEN st.w
    ELSE write_bytes([w |-> write(st.w, "UnsignedInt", 8, data[st.i]).w, i |-> st.i + 1], data)

\* The bits of data[0] that complete the writer's current byte.
align_bits_m(byte, k) == byte \div Pow2(8 - k)
align_bits(byte, k) == and_mask(byte, Pow2(k) - 1)

writer_payload_of(ps, popped) ==
    IF popped.panic # "" THEN popped
    ELSE IF ps.w.bit_index % 8 # 0 /\ Len(Popped(ps).data) > 0
        THEN [popped EXCEPT !.w =
                write_bytes([w |-> write(ps.w, "UnsignedInt", 8 - (ps.w.bit_index % 8),
                                         align_bits(Popped(ps).data[1], 8 - (ps.w.bit_index % 8))).w,
                             i |-> 2],
                            Popped(ps).data)]
        ELSE [popped EXCEPT !.w = write_bytes([w |-> ps.w, i |-> 1], Popped(ps).data)]

writer_payload(ps, name) == writer_payload_of(ps, writer_pop(ps, name, "Payload"))

writer_more_data_m(ps) == [ps EXCEPT !.more = (Top(ps).children # <<>>)]
writer_more_data(ps) ==
    LET children == Top(ps).children
    IN [ps EXCEPT !.more = CASE Len(children) = 0 -> FALSE
                             [] Len(children) = 1 -> children[1].kind # "Payload"
                             [] OTHER -> TRUE]

\* The trait's four operations, dispatched on the implementation.
field(ps, name, field_type, n) ==
    IF ps.panic # "" THEN ps
    ELSE IF ps.mode = "reader" THEN reader_field(ps, name, field_type, n)
    ELSE writer_field(ps, name, field_type, n)

payload(ps, name) ==
    IF ps.panic # "" THEN ps
    ELSE IF ps.mode = "reader" THEN reader_payload(ps, name)
    ELSE writer_payload(ps, name)

more_data(ps) ==
    IF ps.panic # "" THEN ps
    ELSE IF ps.mode = "reader" THEN reader_more_data(ps)
    ELSE writer_more_data(ps)

\* subnode(node, name, cb) is subnode_leave(cb(subnode_enter(ps, name))).
\* Reader: cb visits a fresh node, which is then appended to its parent.
\* Writer: cb visits the popped child, which is then dropped.
subnode_enter_writer(ps, popped) ==
    IF popped.panic # "" THEN popped
    ELSE [popped EXCEPT !.stack = Append(@, Popped(ps))]

subnode_enter(ps, name) ==
    IF ps.panic # "" THEN ps
    ELSE IF ps.mode = "reader" THEN [ps EXCEPT !.stack = Append(@, Node(name, <<>>))]
    ELSE subnode_enter_writer(ps, writer_pop(ps, name, "Node"))

subnode_leave(inner) ==
    IF inner.panic # "" THEN inner
    ELSE IF inner.mode = "reader"
        THEN PushChild([inner EXCEPT !.stack = SubSeq(@, 1, Len(@) - 1)], Top(inner))
    ELSE [inner EXCEPT !.stack = SubSeq(@, 1, Len(@) - 1),
                       !.left = @ + Len(Top(inner).children)]

(***************************************************************************)
(* H264State                                                                *)
(***************************************************************************)
H264State_new ==
    [chroma_format_idc |-> 1,
     separate_color_plane_flag |-> FALSE,
     frame_mbs_only_flag |-> FALSE,
     pic_order_cnt_type |-> 0,
     bottom_field_pic_order_in_frame_present_flag |-> FALSE,
     delta_pic_order_always_zero_flag |-> FALSE,
     redundant_pic_cnt_present_flag |-> FALSE,
     weighted_pred_flag |-> FALSE,
     weighted_bipred_idc |-> 0,
     entropy_coding_mode_flag |-> FALSE,
     deblocking_filter_control_present_flag |-> FALSE,
     num_slice_groups_minus1 |-> 0,
     slice_group_map_type |-> 0,
     log2_max_frame_num_minus4 |-> 0,
     log2_max_pic_order_cnt_lsb_minus4 |-> 0,
     num_ref_idx_l0_active_minus1 |-> 0,
     num_ref_idx_l1_active_minus1 |-> 0,
     pic_size_in_map_units_minus1 |-> 0,
     slice_group_change_rate_minus1 |-> 0]

\* A traversal's record at its start: a processor over the node root.
Processor(mode, r, w, root, state) ==
    [mode |-> mode, r |-> r, w |-> w, stack |-> <<root>>, state |-> state,
     ret |-> 0, more |-> FALSE, panic |-> "", at |-> "", left |-> 0]

(***************************************************************************)
(* The traversal (h264_parser.rs), written once over a processor as in the  *)
(* source: each function takes the traversal's record and yields it after   *)
(* its calls.                                                               *)
(***************************************************************************)
\* state.<key> = <the value the last field() returned>
keep(ps, key) == IF ps.panic # "" THEN ps ELSE [ps EXCEPT !.state[key] = ps.ret]

\* state.<key> = <the value the last field() returned> != 0
keep_flag(ps, key) == IF ps.panic # "" THEN ps ELSE [ps EXCEPT !.state[key] = (ps.ret # 0)]

\* A run of field() calls whose results are not looked at, except the last
\* one's: list holds <<name, field_type, n>> per call.
RECURSIVE fields(_, _)
fields(ps, list) ==
    IF list = <<>> \/ ps.panic # "" THEN ps
    ELSE fields(field(ps, list[1][1], list[1][2], list[1][3]), Tail(list))

\* &format!("name[{}]", i)
IndexName(name, i) == name \o "[" \o ToString(i) \o "]"

\* for i in from..to { field(node, &format!("name[{}]", i), field_type, n) for
\* each name of names }
RECURSIVE indexed_fields(_, _, _, _, _, _)
indexed_fields(ps, names, field_type, n, from, to) ==
    IF from >= to \/ ps.panic # "" THEN ps
    ELSE indexed_fields(
            fields(ps, [k \in 1..Len(names) |-> <<IndexName(names[k], from), field_type, n>>]),
            names, field_type, n, from + 1, to)

\* f64::from(x).log2().ceil() as u8: the cast takes NaN and -inf to 0.
ceil_log2_u8(x) == IF x <= 1 THEN 0 ELSE bit_width(x - 1)

\* v.try_into().unwrap() to u8: [ovf, val]
to_u8(v) == [ovf |-> v < 0 \/ v > 255, val |-> v % 256]

\* a * b on i32 for b = 2 or b = 6: [ovf, val]
twice(a) == add_i32(a, a).val
thrice(a) == add_i32(twice(a), a).val
mul_small(a, b) ==
    [ovf |-> a > MaxI32 \div b \/ a < trunc_div(MinI32, b),
     val |-> IF b = 2 THEN twice(a) ELSE twice(thrice(a))]

\* The fatal error of an i32 overflow x = [ovf, val], which only a build with
\* overflow checks has.
overflow(ps, x, name) ==
    IF ps.panic = "" /\ x.ovf /\ overflow_checks THEN Die(ps, "arithmetic", name) ELSE ps

int_to_slice_type(x) ==
    CASE trunc_rem(x, 5) = 0 -> "P"
      [] trunc_rem(x, 5) = 1 -> "B"
      [] trunc_rem(x, 5) = 2 -> "I"
      [] trunc_rem(x, 5) = 3 -> "SP"
      [] trunc_rem(x, 5) = 4 -> "SI"
      [] OTHER -> "not possible"

\* next_scale = (last_scale + delta_scale + 256) % 256: [ovf, val]
add_256_rem(a) ==
    [ovf |-> a.ovf \/ add_i32(a.val, 256).ovf, val |-> trunc_rem(add_i32(a.val, 256).val, 256)]
next_scale_of(last_scale, delta_scale) == add_256_rem(add_i32(last_scale, delta_scale))

\* The loop of process_scaling_list on its state st = [ps, last_scale,
\* next_scale, i]; p is the run after delta_scale, ns the new next_scale.
RECURSIVE scaling_list_loop(_, _)
scaling_list_next(st, p, ns, scaling_list_size) ==
    scaling_list_loop([ps |-> overflow(p, ns, "delta_scale"),
                       last_scale |-> IF ns.val = 0 THEN st.last_scale ELSE ns.val,
                       next_scale |-> ns.val,
                       i |-> st.i + 1],
                      scaling_list_size)

scaling_list_delta(st, p, scaling_list_size) ==
    scaling_list_next(st, p, next_scale_of(st.last_scale, p.ret), scaling_list_size)

scaling_list_loop(st, scaling_list_size) ==
    IF st.i >= scaling_list_size \/ st.ps.panic # "" THEN st.ps
    ELSE IF st.next_scale # 0
        THEN scaling_list_delta(st, field(st.ps, "delta_scale", "SignedExpGolomb", 0),
                                scaling_list_size)
        ELSE scaling_list_loop([st EXCEPT !.i = @ + 1], scaling_list_size)

process_scaling_list(ps, scaling_list_size) ==
    scaling_list_loop([ps |-> ps, last_scale |-> 8, next_scale |-> 8, i |-> 0], scaling_list_size)

\* if scale_list_present { if i < 6 { subnode 4x4 } else { subnode 8x8 } }, after
\* the flag's field()
scaling_list_if_present(ps, i) ==
    IF ps.ret = 0 THEN ps
    ELSE IF i < 6
        THEN subnode_leave(process_scaling_list(subnode_enter(ps, "scaling_list4x4"), 16))
        ELSE subnode_leave(process_scaling_list(subnode_enter(ps, "scaling_list8x8"), 64))

\* for i in from..to { the flag; the list if the flag is set }
RECURSIVE scaling_matrix(_, _, _, _)
scaling_matrix(ps, flag_name, from, to) ==
    IF from >= to \/ ps.panic # "" THEN ps
    ELSE scaling_matrix(
            scaling_list_if_present(field(ps, IndexName(flag_name, from), "Boolean", 1), from),
            flag_name, from + 1, to)

HighProfiles == {100, 110, 122, 244, 44, 83, 86, 118, 128, 138, 139, 134, 135}

(* process_sps.  Each block of the function is an operator on the run as it   *)
(* is after the field() whose value the block tests.                          *)
\* if seq_scaling_matrix_present_flag != 0 { ... }
sps_scaling(ps, chroma_format_idc) ==
    IF ps.ret # 0
        THEN scaling_matrix(ps, "seq_scaling_list_present_flag", 0,
                            IF chroma_format_idc # 3 THEN 8 ELSE 12)
        ELSE ps

\* state.chroma_format_idc = chroma_format_idc; if chroma_format_idc == 3 { ... }
sps_color_plane(ps) ==
    IF ps.ret = 3
        THEN keep_flag(field(keep(ps, "chroma_format_idc"),
                             "separate_color_plane_flag", "Boolean", 1),
                       "separate_color_plane_flag")
        ELSE keep(ps, "chroma_format_idc")

sps_chroma_of(c) ==
    sps_scaling(fields(sps_color_plane(c),
                       << <<"bit_depth_luma_minus8", "UnsignedExpGolomb", 0>>,
                          <<"bit_depth_chroma_minus8", "UnsignedExpGolomb", 0>>,
                          <<"qpprime_y_zero_transform_bypass_flag", "Boolean", 1>>,
                          <<"seq_scaling_matrix_present_flag", "Boolean", 1>> >>),
                c.ret)

\* the block under the profile_idc test
sps_chroma(ps) == sps_chroma_of(field(ps, "chroma_format_idc", "UnsignedExpGolomb", 0))

\* for i in 0..num_ref_frames_in_pic_order_cnt_cycle { offset_for_ref_frame[i] }
sps_ref_frames(ps) ==
    indexed_fields(ps, <<"offset_for_ref_frame">>, "SignedExpGolomb", 0, 0, ps.ret)

\* state.pic_order_cnt_type = pic_order_cnt_type; if it == 0 { ... } else if it == 1 { ... }
sps_pic_order_of(ps) ==
    IF ps.ret = 0
        THEN keep(field(keep(ps, "pic_order_cnt_type"),
                        "log2_max_pic_order_cnt_lsb_minus4", "UnsignedExpGolomb", 0),
                  "log2_max_pic_order_cnt_lsb_minus4")
    ELSE IF ps.ret = 1
        THEN sps_ref_frames(
                fields(keep_flag(field(keep(ps, "pic_order_cnt_type"),
                                       "delta_pic_order_always_zero_flag", "Boolean", 1),
                                 "delta_pic_order_always_zero_flag"),
                       << <<"offset_for_non_ref_pic", "SignedExpGolomb", 0>>,
                          <<"offset_for_top_to_bottom_field", "SignedExpGolomb", 0>>,
                          <<"num_ref_frames_in_pic_order_cnt_cycle", "UnsignedExpGolomb", 0>> >>))
    ELSE keep(ps, "pic_order_cnt_type")

sps_pic_order(ps) ==
    sps_pic_order_of(
        field(keep(field(ps, "log2_max_frame_num_minus4", "UnsignedExpGolomb", 0),
                   "log2_max_frame_num_minus4"),
              "pic_order_cnt_type", "UnsignedExpGolomb", 0))

\* state.frame_mbs_only_flag = frame_mbs_only_flag != 0; if frame_mbs_only_flag == 0 { ... }
sps_mbs_only(ps) ==
    IF ps.ret = 0
        THEN field(keep_flag(ps, "frame_mbs_only_flag"), "mb_adaptive_frame_field_flag", "Boolean", 1)
        ELSE keep_flag(ps, "frame_mbs_only_flag")

\* if frame_cropping_flag != 0 { ... }
sps_cropping(ps) ==
    IF ps.ret # 0
        THEN fields(ps, << <<"frame_crop_left_offset", "UnsignedExpGolomb", 0>>,
                           <<"frame_crop_right_offset", "UnsignedExpGolomb", 0>>,
                           <<"frame_crop_top_offset", "UnsignedExpGolomb", 0>>,
                           <<"frame_crop_bottom_offset", "UnsignedExpGolomb", 0>> >>)
        ELSE ps

\* bitstream.payload(node, if vui_params != 0 { "unparsed_vui_params" } else { "trailing_bits" })
sps_vui(ps) == payload(ps, IF ps.ret # 0 THEN "unparsed_vui_params" ELSE "trailing_bits")

\* from max_num_ref_frames to the end
sps_frame(ps) ==
    sps_vui(
        field(sps_cropping(
                fields(sps_mbs_only(
                        fields(ps, << <<"max_num_ref_frames", "UnsignedExpGolomb", 0>>,
                                      <<"gaps_in_frame_num_value_allowed_flag", "Boolean", 1>>,
                                      <<"pic_width_in_mbs_minus1", "UnsignedExpGolomb", 0>>,
                                      <<"pic_height_in_mbs_minus1", "UnsignedExpGolomb", 0>>,
                                      <<"frame_mbs_only_flag", "Boolean", 1>> >>)),
                       << <<"direct_8x8_inference_flag", "Boolean", 1>>,
                          <<"frame_cropping_flag", "Boolean", 1>> >>)),
              "vui_parameters_present_flag", "Boolean", 1))

\* from constraint_set0_flag to seq_paramter_set_id
sps_head(ps) ==
    fields(ps, << <<"constraint_set0_flag", "Boolean", 1>>,
                  <<"constraint_set1_flag", "Boolean", 1>>,
                  <<"constraint_set2_flag", "Boolean", 1>>,
                  <<"constraint_set3_flag", "Boolean", 1>>,
                  <<"constraint_set4_flag", "Boolean", 1>>,
                  <<"constraint_set5_flag", "Boolean", 1>>,
                  <<"reserved_zero_2bits", "UnsignedInt", 2>>,
                  <<"level_idc", "UnsignedInt", 8>>,
                  <<"seq_paramter_set_id", "UnsignedExpGolomb", 0>> >>)

sps_of(p) ==
    sps_frame(sps_pic_order(IF p.ret \in HighProfiles THEN sps_chroma(sps_head(p)) ELSE sps_head(p)))

process_sps(ps) == sps_of(field(ps, "profile_idc", "UnsignedInt", 8))

(* process_pps *)
\* for i in 0..(num_slice_groups_minus1+1) { run_length_minus1[i] }, to being the sum
pps_run_lengths(ps, to) ==
    indexed_fields(overflow(ps, to, "run_length_minus1"), <<"run_length_minus1">>,
                   "UnsignedExpGolomb", 0, 0, to.val)

\* for i in 0..(pic_size_in_map_units_minus1+1) { slice_group_id[i] of
\* log2(num_slice_groups_minus1+1) bits }, to and groups being the two sums
pps_slice_group_ids(ps, to, groups) ==
    IF to.val <= 0 THEN overflow(ps, to, "slice_group_id")
    ELSE indexed_fields(overflow(overflow(ps, to, "slice_group_id"), groups, "slice_group_id"),
                        <<"slice_group_id">>, "UnsignedInt", ceil_log2_u8(groups.val), 0, to.val)

\* the branch slice_group_map_type == 6, after pic_size_in_map_units_minus1
pps_map_units(ps, num_slice_groups_minus1) ==
    pps_slice_group_ids(ps, add_i32(ps.ret, 1), add_i32(num_slice_groups_minus1, 1))

\* the branches on slice_group_map_type, after its field() and state update
pps_map_type(ps, num_slice_groups_minus1) ==
    IF ps.ret = 0 THEN pps_run_lengths(ps, add_i32(num_slice_groups_minus1, 1))
    ELSE IF ps.ret = 2
        THEN indexed_fields(ps, <<"top_left", "bottom_right">>, "UnsignedExpGolomb", 0,
                            0, num_slice_groups_minus1)
    ELSE IF ps.ret >= 3 /\ ps.ret <= 5
        THEN keep(fields(ps, << <<"slice_group_change_direction_flag", "Boolean", 1>>,
                                <<"slice_group_change_rate_minus1", "UnsignedExpGolomb", 0>> >>),
                  "slice_group_change_rate_minus1")
    ELSE IF ps.ret = 6
        THEN pps_map_units(
                keep(field(ps, "pic_size_in_map_units_minus1", "UnsignedExpGolomb", 0),
                     "pic_size_in_map_units_minus1"),
                num_slice_groups_minus1)
    ELSE ps

\* state.num_slice_groups_minus1 = num_slice_groups_minus1; if it > 0 { ... }
pps_slice_groups(ps) ==
    IF ps.ret > 0
        THEN pps_map_type(keep(field(keep(ps, "num_slice_groups_minus1"),
                                     "slice_group_map_type", "UnsignedExpGolomb", 0),
                               "slice_group_map_type"),
                          ps.ret)
        ELSE keep(ps, "num_slice_groups_minus1")

\* for i in 0..(6 + transform_8x8_mode_flag * (2 or 6)) { ... }, x being the
\* product and to the sum
pps_scaling_matrix(ps, x, to) ==
    scaling_matrix(overflow(overflow(ps, x, "pic_scaling_list_present_flag"),
                            to, "pic_scaling_list_present_flag"),
                   "pic_scaling_list_present_flag", 0, to.val)

pps_scaling_to(ps, x) == pps_scaling_matrix(ps, x, add_i32(6, x.val))

\* if pic_scaling_matrix_present_flag != 0 { ... }
pps_scaling(ps, transform_8x8_mode_flag) ==
    IF ps.ret # 0
        THEN pps_scaling_to(ps, mul_small(transform_8x8_mode_flag,
                                          IF ps.state.chroma_format_idc # 3 THEN 2 ELSE 6))
        ELSE ps

pps_more_of(t) ==
    field(pps_scaling(field(t, "pic_scaling_matrix_present_flag", "Boolean", 1), t.ret),
          "second_chroma_qp_index_offset", "SignedExpGolomb", 0)

\* the block under `bitstream.more_data(node)`
pps_more(ps) == pps_more_of(field(ps, "transform_8x8_mode_flag", "Boolean", 1))

\* if bitstream.more_data(node) { ... }; bitstream.payload(node, "trailing_bits")
pps_trailing(ps) == payload(IF ps.more THEN pps_more(ps) ELSE ps, "trailing_bits")

\* from num_ref_idx_l0_default_active_minus1 to the end
pps_tail(ps) ==
    pps_trailing(more_data(
        keep_flag(fields(
            keep_flag(fields(
                keep(field(
                    keep_flag(fields(ps,
                        << <<"num_ref_idx_l0_default_active_minus1", "UnsignedExpGolomb", 0>>,
                           <<"num_ref_idx_l1_default_active_minus1", "UnsignedExpGolomb", 0>>,
                           <<"weighted_pred_flag", "Boolean", 1>> >>),
                        "weighted_pred_flag"),
                    "weighted_bipred_idc", "UnsignedInt", 2),
                    "weighted_bipred_idc"),
                << <<"pic_init_qp_minus26", "SignedExpGolomb", 0>>,
                   <<"pic_init_qs_minus26", "SignedExpGolomb", 0>>,
                   <<"chroma_qp_index_offset", "SignedExpGolomb", 0>>,
                   <<"deblocking_filter_control_present_flag", "Boolean", 1>> >>),
                "deblocking_filter_control_present_flag"),
            << <<"constrained_intra_pred_flag", "Boolean", 1>>,
               <<"redundant_pic_cnt_present_flag", "Boolean", 1>> >>),
            "redundant_pic_cnt_present_flag")))

process_pps(ps) ==
    pps_tail(pps_slice_groups(
        field(keep_flag(
                field(keep_flag(
                        fields(ps, << <<"pic_parameter_set_id", "UnsignedExpGolomb", 0>>,
                                      <<"seq_parameter_set_id", "UnsignedExpGolomb", 0>>,
                                      <<"entropy_coding_mode_flag", "Boolean", 1>> >>),
                        "entropy_coding_mode_flag"),
                      "bottom_field_pic_order_in_frame_present_flag", "Boolean", 1),
                "bottom_field_pic_order_in_frame_present_flag"),
              "num_slice_groups_minus1", "UnsignedExpGolomb", 0)))

process_filler(ps) == payload(ps, "filler_data")

(* process_ref_pic_list_modification *)
\* loop { modification_of_pic_nums_idc; match it { ... _ => break } }; p is the run
\* after modification_of_pic_nums_idc
\* _ => break
modification_breaks(p) == p.panic # "" \/ p.ret \notin {0, 1, 2, 4, 5}

\* the arms of the match that call field()
modification_arm(p) ==
    IF p.ret \in {0, 1} THEN field(p, "abs_diff_pic_num_minus1", "UnsignedExpGolomb", 0)
    ELSE IF p.ret = 2 THEN field(p, "long_term_pic_num", "UnsignedExpGolomb", 0)
    ELSE field(p, "abs_diff_view_idx_minus1", "UnsignedExpGolomb", 0)

RECURSIVE modification_loop(_)
modification_match(p) ==
    IF modification_breaks(p) THEN p ELSE modification_loop(modification_arm(p))

modification_loop(ps) ==
    IF ps.panic # "" THEN ps
    ELSE modification_match(field(ps, "modification_of_pic_nums_idc", "UnsignedExpGolomb", 0))

\* if ref_pic_list_modification_flag_lX { loop }
modification_if_flag(ps) == IF ps.ret # 0 THEN modification_loop(ps) ELSE ps

modification_l0(ps, slice_type) ==
    IF slice_type # "I" /\ slice_type # "SI"
        THEN modification_if_flag(field(ps, "ref_pic_list_modification_flag_l0", "Boolean", 1))
        ELSE ps

modification_l1(ps, slice_type) ==
    IF slice_type = "B"
        THEN modification_if_flag(field(ps, "ref_pic_list_modification_flag_l1", "Boolean", 1))
        ELSE ps

process_ref_pic_list_modification(ps, slice_type) ==
    modification_l1(modification_l0(ps, slice_type), slice_type)

(* process_pred_weight_table, for the list l ("l0" or "l1") *)
\* if chroma_weight_<l>_flag { for j in 0..2 { ... } }
weight_chroma_if_flag(ps, l, i) ==
    IF ps.ret # 0
        THEN indexed_fields(ps, <<IndexName("chroma_weight_" \o l, i),
                                  IndexName("chroma_offset_" \o l, i)>>,
                            "SignedExpGolomb", 0, 0, 2)
        ELSE ps

\* if chroma_array_type != 0 { ... }
weight_chroma(ps, l, chroma_array_type, i) ==
    IF chroma_array_type = 0 THEN ps
    ELSE weight_chroma_if_flag(field(ps, "chroma_weight_" \o l \o "_flag", "Boolean", 1), l, i)

\* if luma_weight_<l>_flag { ... }
weight_luma_if_flag(ps, l, i) ==
    IF ps.ret # 0
        THEN fields(ps, << <<IndexName("luma_weight_" \o l, i), "SignedExpGolomb", 0>>,
                           <<IndexName("luma_offset_" \o l, i), "SignedExpGolomb", 0>> >>)
        ELSE ps

\* for i in from..to { ... }
RECURSIVE weight_loop(_, _, _, _, _)
weight_loop(ps, l, chroma_array_type, from, to) ==
    IF from >= to \/ ps.panic # "" THEN ps
    ELSE weight_loop(
            weight_chroma(
                weight_luma_if_flag(field(ps, "luma_weight_" \o l \o "_flag", "Boolean", 1), l, from),
                l, chroma_array_type, from),
            l, chroma_array_type, from + 1, to)

\* for i in 0..(state.num_ref_idx_<l>_active_minus1+1) { ... }, to being the sum
weight_list(ps, l, chroma_array_type, to) ==
    weight_loop(overflow(ps, to, "luma_weight_" \o l \o "_flag"), l, chroma_array_type, 0, to.val)

chroma_array_type_of(state) ==
    IF state.separate_color_plane_flag THEN 0 ELSE state.chroma_format_idc

weight_l0(ps) ==
    weight_list(IF chroma_array_type_of(ps.state) # 0
                    THEN field(ps, "chroma_log2_weight_denom", "UnsignedExpGolomb", 0)
                    ELSE ps,
                "l0", chroma_array_type_of(ps.state),
                add_i32(ps.state.num_ref_idx_l0_active_minus1, 1))

weight_l1(ps, slice_type) ==
    IF slice_type # "B"
        THEN weight_list(ps, "l1", chroma_array_type_of(ps.state),
                         add_i32(ps.state.num_ref_idx_l1_active_minus1, 1))
        ELSE ps

process_pred_weight_table(ps, slice_type) ==
    weight_l1(weight_l0(field(ps, "luma_log2_weight_denom", "UnsignedExpGolomb", 0)), slice_type)

(* process_dec_ref_pic_marking *)
\* the four ifs of one turn of the loop, in the source's order, after
\* memory_management_control_operation = op
marking_4(ps, op) ==
    IF op = 4 THEN field(ps, "max_long_term_frame_idx_plus1", "UnsignedExpGolomb", 0) ELSE ps

marking_3(ps, op) ==
    marking_4(IF op = 3 \/ op = 6 THEN field(ps, "long_term_frame_idx", "UnsignedExpGolomb", 0)
              ELSE ps, op)

marking_2(ps, op) ==
    marking_3(IF op = 2 THEN field(ps, "long_term_pic_num", "UnsignedExpGolomb", 0) ELSE ps, op)

marking_1(ps, op) ==
    marking_2(IF op = 1 \/ op = 3
                THEN field(ps, "difference_of_pic_nums_minus1", "UnsignedExpGolomb", 0)
                ELSE ps, op)

\* if memory_management_control_operation == 0 { break }
marking_breaks(p) == p.panic # "" \/ p.ret = 0

RECURSIVE marking_loop(_)
marking_turn(p) == IF marking_breaks(p) THEN p ELSE marking_loop(marking_1(p, p.ret))

marking_loop(ps) ==
    IF ps.panic # "" THEN ps
    ELSE marking_turn(field(ps, "memory_management_control_operation", "UnsignedExpGolomb", 0))

\* if adaptive_ref_pic_marking_mode_flag { loop }
marking_if_flag(ps) == IF ps.ret # 0 THEN marking_loop(ps) ELSE ps

process_dec_ref_pic_marking(ps, idr_pic_flag) ==
    IF idr_pic_flag
        THEN fields(ps, << <<"no_output_of_prior_pics_flag", "Boolean", 1>>,
                           <<"long_term_reference_flag", "Boolean", 1>> >>)
        ELSE marking_if_flag(field(ps, "adaptive_ref_pic_marking_mode_flag", "Boolean", 1))

(* process_slice_header *)
\* field(node, name, UnsignedInt, size.try_into().unwrap()) for size = minus4 + 4,
\* size being the sum [ovf, val]
sized_field_of(ps, name, size) ==
    IF ps.panic # "" THEN ps
    ELSE IF size.ovf /\ overflow_checks THEN Die(ps, "arithmetic", name)
    ELSE IF to_u8(size.val).ovf THEN Die(ps, "unwrap", name)
    ELSE field(ps, name, "UnsignedInt", size.val)

sized_field(ps, name, minus4) == sized_field_of(ps, name, add_i32(minus4, 4))

\* (pic_size_in_map_units_minus1 + 1) / (slice_group_change_rate_minus1 + 1) + 1, a
\* and b being the two sums and c the last: [ovf, val], ovf also for a zero
\* divisor and for i32::MIN / -1, which are fatal in every build
change_cycle_sum(a, b, c) ==
    [ovf |-> a.ovf \/ b.ovf \/ c.ovf, val |-> c.val]

change_cycle_div(a, b) ==
    IF b.val = 0 \/ (a.val = MinI32 /\ b.val = -1) THEN [ovf |-> TRUE, val |-> 0, fatal |-> TRUE]
    ELSE [ovf |-> change_cycle_sum(a, b, add_i32(trunc_div(a.val, b.val), 1)).ovf,
          val |-> change_cycle_sum(a, b, add_i32(trunc_div(a.val, b.val), 1)).val,
          fatal |-> FALSE]

slice_group_change_cycle_size(state) ==
    change_cycle_div(add_i32(state.pic_size_in_map_units_minus1, 1),
                     add_i32(state.slice_group_change_rate_minus1, 1))

sh_change_cycle_of(ps, size) ==
    IF ps.panic # "" THEN ps
    ELSE IF size.fatal \/ (size.ovf /\ overflow_checks)
        THEN Die(ps, "arithmetic", "slice_group_change_cycle")
    ELSE field(ps, "slice_group_change_cycle", "UnsignedInt", ceil_log2_u8(size.val))

\* if state.num_slice_groups_minus1 > 0 && slice_group_map_type in 3..=5 { ... }
sh_change_cycle(ps) ==
    IF ps.state.num_slice_groups_minus1 > 0 /\ ps.state.slice_group_map_type >= 3
       /\ ps.state.slice_group_map_type <= 5
        THEN sh_change_cycle_of(ps, slice_group_change_cycle_size(ps.state))
        ELSE ps

\* if disable_deblocking_filter_idc != 1 { ... }
sh_deblocking_of(ps) ==
    IF ps.ret # 1
        THEN fields(ps, << <<"slice_alpha_c0_offset_div2", "SignedExpGolomb", 0>>,
                           <<"slice_beta_offset_div2", "SignedExpGolomb", 0>> >>)
        ELSE ps

\* if state.deblocking_filter_control_present_flag { ... }
sh_deblocking(ps) ==
    IF ps.state.deblocking_filter_control_present_flag
        THEN sh_deblocking_of(field(ps, "disable_deblocking_filter_idc", "UnsignedExpGolomb", 0))
        ELSE ps

\* if slice_type is SP or SI { ... }
sh_qs(ps, slice_type) ==
    IF slice_type = "SP"
        THEN fields(ps, << <<"sp_for_switch_flag", "Boolean", 1>>,
                           <<"slice_qs_delta", "SignedExpGolomb", 0>> >>)
    ELSE IF slice_type = "SI" THEN field(ps, "slice_qs_delta", "SignedExpGolomb", 0)
    ELSE ps

\* if state.entropy_coding_mode_flag && slice_type is neither I nor SI { ... }
sh_cabac(ps, slice_type) ==
    IF ps.state.entropy_coding_mode_flag /\ slice_type # "I" /\ slice_type # "SI"
        THEN field(ps, "cabac_init_idc", "UnsignedExpGolomb", 0)
        ELSE ps

\* from cabac_init_idc to the end
sh_tail(ps, slice_type) ==
    sh_change_cycle(sh_deblocking(sh_qs(
        field(sh_cabac(ps, slice_type), "slice_qp_delta", "SignedExpGolomb", 0), slice_type)))

\* if nal_ref_idc != 0 { subnode dec_ref_pic_marking }
sh_marking(ps, nalu_type, nal_ref_idc) ==
    IF nal_ref_idc # 0
        THEN subnode_leave(process_dec_ref_pic_marking(subnode_enter(ps, "dec_ref_pic_marking"),
                                                       nalu_type = 5))
        ELSE ps

\* if (weighted_pred_flag && P or SP) || (weighted_bipred_idc == 1 && B) { subnode }
sh_pred_weight(ps, slice_type) ==
    IF (ps.state.weighted_pred_flag /\ slice_type \in {"P", "SP"})
       \/ (ps.state.weighted_bipred_idc = 1 /\ slice_type = "B")
        THEN subnode_leave(process_pred_weight_table(subnode_enter(ps, "pred_weight_table"),
                                                     slice_type))
        ELSE ps

\* the three subnodes
sh_subnodes(ps, slice_type, nalu_type, nal_ref_idc) ==
    sh_marking(
        sh_pred_weight(
            subnode_leave(process_ref_pic_list_modification(
                subnode_enter(ps, IF nalu_type = 20 \/ nalu_type = 21
                                    THEN "ref_pic_list_mvc_modification"
                                    ELSE "ref_pic_list_modification"),
                slice_type)),
            slice_type),
        nalu_type, nal_ref_idc)

\* after num_ref_idx_active_override_flag
sh_ref_idx_l1(ps, slice_type) ==
    IF slice_type = "B" THEN field(ps, "num_ref_idx_l1_active_minus1", "UnsignedExpGolomb", 0)
    ELSE ps

sh_ref_idx_of(ps, slice_type) ==
    sh_ref_idx_l1(IF ps.ret # 0
                    THEN field(ps, "num_ref_idx_l0_active_minus1", "UnsignedExpGolomb", 0)
                    ELSE ps,
                  slice_type)

\* direct_spatial_mv_pred_flag and the block for P, SP or B slices
sh_ref_idx(ps, slice_type) ==
    IF slice_type = "B"
        THEN sh_ref_idx_of(fields(ps, << <<"direct_spatial_mv_pred_flag", "Boolean", 1>>,
                                         <<"num_ref_idx_active_override_flag", "Boolean", 1>> >>),
                           slice_type)
    ELSE IF slice_type \in {"P", "SP"}
        THEN sh_ref_idx_of(field(ps, "num_ref_idx_active_override_flag", "Boolean", 1), slice_type)
    ELSE ps

sh_redundant(ps) ==
    IF ps.state.redundant_pic_cnt_present_flag
        THEN field(ps, "redundant_pic_cnt", "UnsignedExpGolomb", 0)
        ELSE ps

sh_delta(ps) ==
    IF ps.state.pic_order_cnt_type = 1 /\ ~ps.state.delta_pic_order_always_zero_flag
        THEN field(ps, "delta_pic_order_cnt", "SignedExpGolomb", 0)
        ELSE ps

sh_delta_bottom(ps, field_pic_flag) ==
    IF ps.state.bottom_field_pic_order_in_frame_present_flag /\ ~field_pic_flag
        THEN field(ps, "delta_pic_order_cnt_bottom", "SignedExpGolomb", 0)
        ELSE ps

\* if state.pic_order_cnt_type == 0 { ... }
sh_lsb(ps, field_pic_flag) ==
    IF ps.state.pic_order_cnt_type = 0
        THEN sh_delta_bottom(sized_field(ps, "pic_order_cnt_lsb",
                                         ps.state.log2_max_pic_order_cnt_lsb_minus4),
                             field_pic_flag)
        ELSE ps

\* from idr_pic_id to redundant_pic_cnt
sh_pic_order(ps, field_pic_flag, nalu_type) ==
    sh_redundant(sh_delta(sh_lsb(
        IF nalu_type = 5 THEN field(ps, "idr_pic_id", "UnsignedExpGolomb", 0) ELSE ps,
        field_pic_flag)))

\* from idr_pic_flag to the end
sh_rest(ps, field_pic_flag, slice_type, nalu_type, nal_ref_idc) ==
    sh_tail(sh_subnodes(sh_ref_idx(sh_pic_order(ps, field_pic_flag, nalu_type), slice_type),
                        slice_type, nalu_type, nal_ref_idc),
            slice_type)

\* after field_pic_flag
sh_bottom_field(ps, slice_type, nalu_type, nal_ref_idc) ==
    sh_rest(IF ps.ret # 0 THEN field(ps, "bottom_field_flag", "Boolean", 1) ELSE ps,
            ps.panic = "" /\ ps.ret # 0, slice_type, nalu_type, nal_ref_idc)

\* after frame_num: if !state.frame_mbs_only_flag { ... }
sh_field_pic(ps, slice_type, nalu_type, nal_ref_idc) ==
    IF ~ps.state.frame_mbs_only_flag
        THEN sh_bottom_field(field(ps, "field_pic_flag", "Boolean", 1),
                             slice_type, nalu_type, nal_ref_idc)
        ELSE sh_rest(ps, FALSE, slice_type, nalu_type, nal_ref_idc)

sh_color_plane(ps) ==
    IF ps.state.separate_color_plane_flag THEN field(ps, "color_plane_id", "UnsignedInt", 2)
    ELSE ps

\* after slice_type, whose value int_to_slice_type has taken to slice_type
sh_of(ps, slice_type, nalu_type, nal_ref_idc) ==
    IF ps.panic # "" THEN ps
    ELSE IF slice_type = "not possible" THEN Die(ps, "not possible", "slice_type")
    ELSE sh_field_pic(
            sized_field(sh_color_plane(field(ps, "pic_parameter_set_id", "UnsignedExpGolomb", 0)),
                        "frame_num", ps.state.log2_max_frame_num_minus4),
            slice_type, nalu_type, nal_ref_idc)

sh_slice_type(ps, nalu_type, nal_ref_idc) ==
    sh_of(ps, int_to_slice_type(ps.ret), nalu_type, nal_ref_idc)

process_slice_header(ps, nalu_type, nal_ref_idc) ==
    sh_slice_type(fields(ps, << <<"first_mb_in_slice", "UnsignedExpGolomb", 0>>,
                                <<"slice_type", "UnsignedExpGolomb", 0>> >>),
                  nalu_type, nal_ref_idc)

process_slice(ps, nalu_type, nalu_ref_idc) ==
    payload(subnode_leave(process_slice_header(subnode_enter(ps, "slice_header"),
                                               nalu_type, nalu_ref_idc)),
            "slice_payload")

(* process_nalu *)
\* The name of the subnode of a NAL unit that is not parsed.
unparsed_name_m(nalu_type) == "filler_nalu"
unparsed_name(nalu_type) == IF nalu_type = 12 THEN "filler_nalu" ELSE "unparsed_nalu"

\* match nalu_type { ... }
nalu_match(ps, nalu_ref_idc, nalu_type) ==
    IF nalu_type \in 1..5
        THEN subnode_leave(process_slice(subnode_enter(ps, "slice"), nalu_type, nalu_ref_idc))
    ELSE IF nalu_type = 7 THEN subnode_leave(process_sps(subnode_enter(ps, "sps")))
    ELSE IF nalu_type = 8 THEN subnode_leave(process_pps(subnode_enter(ps, "pps")))
    ELSE subnode_leave(process_filler(subnode_enter(ps, unparsed_name(nalu_type))))

\* after nal_unit_type
nalu_type_of(ps, nalu_ref_idc) == nalu_match(ps, nalu_ref_idc, ps.ret)

\* after nal_ref_idc
nalu_ref_idc_of(ps) == nalu_type_of(field(ps, "nal_unit_type", "UnsignedInt", 5), ps.ret)

process_nalu(ps) ==
    nalu_ref_idc_of(fields(ps, << <<"forbidden_zero_bit", "Boolean", 1>>,
                                  <<"nal_ref_idc", "UnsignedInt", 2>> >>))

(***************************************************************************)
(* The field codec: write one field at some bit offset, then read it back   *)
(* from the same offset (BitstreamWriter::write, BitstreamReader::read).    *)
(***************************************************************************)
MaxPad == 3      \* bits written before the field
SmallMax == 6    \* the small values tried besides the edge values

\* Values around every power of two, up to i32::MAX.
Edges == UNION {{Pow2(k) - 2, Pow2(k) - 1, Pow2(k)} : k \in 1..30} \cup {MaxI32 - 1, MaxI32}

Clip(S, lo, hi) == {v \in S : lo <= v /\ v <= hi}

\* The largest value of n bits, n <= 31.
UMax(n) == IF n = 31 THEN MaxI32 ELSE Pow2(n) - 1

\* The values tried for a field of n bits: the small ones and those at the ends
\* of the range.
WidthEdges(n) == {UMax(n), UMax(n) - 1, UMax(n) \div 2, UMax(n) \div 2 + 1}

UnsignedVals(n) == Clip((0..SmallMax) \cup WidthEdges(n), 0, UMax(n))

SignedVals(n) ==
    LET hi == UMax(n - 1)
        lo == (-hi) - 1
        pos == (0..SmallMax) \cup WidthEdges(n - 1)
    IN Clip(pos \cup {-v : v \in pos} \cup {lo}, lo, hi)

UeVals == (0..SmallMax) \cup Edges

SeVals == Clip(UeVals \cup {-v : v \in UeVals}, -Pow2(30), Pow2(30))

CodecInputs ==
    {[ft |-> "Boolean", n |-> 1, v |-> v] : v \in {0, 1}}
    \cup UNION {{[ft |-> "UnsignedInt", n |-> n, v |-> v] : v \in UnsignedVals(n)} : n \in 0..31}
    \cup UNION {{[ft |-> "SignedInt", n |-> n, v |-> v] : v \in SignedVals(n)} : n \in 1..32}
    \cup {[ft |-> "UnsignedExpGolomb", n |-> 0, v |-> v] : v \in UeVals}
    \cup {[ft |-> "SignedExpGolomb", n |-> 0, v |-> v] : v \in SeVals}

NoArg == [ft |-> "Boolean", n |-> 0, v |-> 0, at |-> 0]

CodecInit ==
    /\ overflow_checks \in BOOLEAN
    /\ pc = "pad"
    /\ bitstream = <<>>
    /\ reader = BitstreamReader_new(<<>>)
    /\ writer = BitstreamWriter_new
    /\ node = <<>>
    /\ text = <<>>
    /\ arg = NoArg
    /\ res = None

\* Some earlier field leaves the writer at an arbitrary bit offset.
CodecPad(b) ==
    /\ pc = "pad"
    /\ writer.bit_index < MaxPad
    /\ writer' = write(writer, "Boolean", 1, b).w
    /\ UNCHANGED <<overflow_checks, pc, bitstream, reader, node, text, arg, res>>

\* writer.write(field_type, n, v)
CodecWrite(in) ==
    /\ pc = "pad"
    /\ \E w \in {write(writer, in.ft, in.n, in.v)} :
          /\ writer' = w.w
          /\ pc' = IF w.panic THEN "panicked" ELSE "written"
          /\ res' = IF w.panic THEN Panic ELSE None
    /\ arg' = [ft |-> in.ft, n |-> in.n, v |-> in.v, at |-> writer.bit_index]
    /\ UNCHANGED <<overflow_checks, bitstream, reader, node, text>>

\* A reader over the written bytes skips to the field's offset and reads it.
CodecRead ==
    /\ pc = "written"
    /\ \E r \in {read(read(BitstreamReader_new(writer.buffer), "UnsignedInt", arg.at).r,
                       arg.ft, arg.n)} :
          /\ reader' = r.r
          /\ res' = r.o
    /\ pc' = "done"
    /\ UNCHANGED <<overflow_checks, bitstream, writer, node, text, arg>>

CodecNext ==
    \/ \E b \in {0, 1} : CodecPad(b)
    \/ \E in \in CodecInputs : CodecWrite(in)
    \/ CodecRead

SpecCodec == CodecInit /\ [][CodecNext]_vars

CodecEnded == pc \in {"done", "panicked"}

\* The field was written without a fatal error, read back as Some(v), and the
\* reader consumed exactly the bits the writer appended.
RoundTrips ==
    /\ pc = "done"
    /\ res = Some(arg.v)
    /\ reader.bit_index = writer.bit_index

\* C3: for every v in [0, 2^31 - 2], write(UnsignedExpGolomb, _, v) then
\* read(UnsignedExpGolomb, _) returns Some(v), with no i32 overflow (no panic in
\* the build with overflow checks), and the reader consumes exactly the
\* 2 * bit_width(v + 1) - 1 bits that were written.
C3_UeRoundTrip ==
    (CodecEnded /\ arg.ft = "UnsignedExpGolomb" /\ arg.v >= 0 /\ arg.v <= MaxI32 - 1)
        => /\ RoundTrips
           /\ writer.bit_index - arg.at = 2 * bit_width(arg.v + 1) - 1

C3_Witness ==
    /\ pc = "done" /\ overflow_checks /\ arg.ft = "UnsignedExpGolomb"
    /\ arg.v = MaxI32 - 1 /\ arg.at = 3 /\ res = Some(arg.v)
    /\ reader.bit_index = 3 + 61

\* C4 as stated: for every v in [-(2^30 - 1), 2^30], write(SignedExpGolomb, _, v)
\* then read(SignedExpGolomb, _) returns Some(v) and no 32-bit computation
\* overflows, also at v = 2^30.
C4_SeRoundTripAsStated ==
    (CodecEnded /\ arg.ft = "SignedExpGolomb" /\ arg.v >= -(Pow2(30) - 1) /\ arg.v <= Pow2(30))
        => RoundTrips

\* C4 amended: the law holds for every v in [-(2^30 - 1), 2^30 - 1]; at v = 2^30
\* the writer's 2 * v overflows i32, which is fatal in a build with overflow checks.
C4_SeRoundTrip ==
    /\ (CodecEnded /\ arg.ft = "SignedExpGolomb" /\ arg.v >= -(Pow2(30) - 1) /\ arg.v <= Pow2(30) - 1)
            => RoundTrips
    /\ (CodecEnded /\ arg.ft = "SignedExpGolomb" /\ arg.v = Pow2(30) /\ overflow_checks)
            => pc = "panicked"

C4_Witness ==
    /\ pc = "done" /\ overflow_checks /\ arg.ft = "SignedExpGolomb"
    /\ arg.v = Pow2(30) - 1 /\ res = Some(arg.v) /\ writer.bit_index - arg.at = 61

\* The number of bits a fixed-width field occupies.
FixedBits == IF arg.ft = "Boolean" THEN 1 ELSE arg.n

InFixedDomain ==
    \/ arg.ft = "Boolean" /\ arg.v \in {0, 1}
    \/ arg.ft = "UnsignedInt" /\ arg.n >= 0 /\ arg.n <= 31
            /\ arg.v >= 0 /\ arg.v <= UMax(arg.n)
    \/ arg.ft = "SignedInt" /\ arg.n >= 1 /\ arg.n <= 32
            /\ arg.v >= (-UMax(arg.n - 1)) - 1
            /\ arg.v <= UMax(arg.n - 1)

\* C5: for Boolean, UnsignedInt (0 <= n <= 31, 0 <= v <= 2^n - 1) and SignedInt
\* (1 <= n <= 32, -2^(n-1) <= v <= 2^(n-1) - 1), writing v at any bit offset and
\* reading it from the same offset returns Some(v) and advances the reader by
\* exactly the number of bits written.
C5_FixedRoundTrip ==
    (CodecEnded /\ InFixedDomain)
        => /\ RoundTrips
           /\ reader.bit_index - arg.at = FixedBits

C5_Witness ==
    /\ pc = "done" /\ arg.ft = "SignedInt" /\ arg.n = 32 /\ arg.v = MinI32
    /\ arg.at = 3 /\ res = Some(MinI32) /\ reader.bit_index = 35

(***************************************************************************)
(* The opaque payload: the reader's payload() at some cursor of a NAL unit, *)
(* then the writer's payload() on the result at the same offset.            *)
(***************************************************************************)
MaxNalLen == 2   \* bytes of a NAL unit buffer

\* The byte values the buffers are made of.
PayloadBytes == {0, 1, 128, 165, 255}

\* The sequences over S of length at most n.
SeqsUpTo(S, n) == UNION {[1..k -> S] : k \in 0..n}

\* The 4-byte start code serialize_h264 puts before every NAL unit.
StartCode4 == <<0, 0, 0, 1>>
StartCode3 == <<0, 0, 1>>

\* The bit at 0-based position i of a byte buffer, most significant bit first.
BitAt(buffer, i) == (buffer[(i \div 8) + 1] \div Pow2(7 - (i % 8))) % 2

\* The bits of a buffer from bit position c to its end.
BitsFrom(buffer, c) == [j \in 1..(8 * Len(buffer) - c) |-> BitAt(buffer, c + j - 1)]

PayloadInit ==
    /\ overflow_checks \in BOOLEAN
    /\ pc = "copy"
    /\ bitstream = <<>>
    /\ \E buf \in SeqsUpTo(PayloadBytes, MaxNalLen) \ {<<>>} : reader = BitstreamReader_new(buf)
    /\ writer = [buffer |-> StartCode4, bit_index |-> 32]
    /\ node = Node("nalu", <<>>)
    /\ text = <<>>
    /\ arg = NoArg
    /\ res = None

\* One bit parsed as a field and written back moves both cursors alike.
PayloadCopyBit ==
    /\ pc = "copy"
    /\ \E b \in {read(reader, "Boolean", 1)} :
          /\ b.o.k = "Some"
          /\ reader' = b.r
          /\ writer' = write(writer, "Boolean", 1, b.o.val).w
    /\ UNCHANGED <<overflow_checks, pc, bitstream, node, text, arg, res>>

\* reader.payload(node, "filler_data")
PayloadRead ==
    /\ pc = "copy"
    /\ \E ps \in {reader_payload(Processor("reader", reader, writer, node, H264State_new), "filler_data")} :
          /\ reader' = ps.r
          /\ node' = Top(ps)
          /\ pc' = IF ps.panic = "" THEN "read" ELSE "panicked"
    /\ arg' = [NoArg EXCEPT !.at = reader.bit_index]
    /\ UNCHANGED <<overflow_checks, bitstream, writer, text, res>>

\* writer.payload(node, "filler_data")
PayloadWrite ==
    /\ pc = "read"
    /\ \E ps \in {writer_payload(Processor("writer", reader, writer, node, H264State_new), "filler_data")} :
          /\ writer' = ps.w
          /\ node' = Top(ps)
          /\ pc' = IF ps.panic = "" THEN "done" ELSE "panicked"
    /\ UNCHANGED <<overflow_checks, bitstream, reader, text, arg, res>>

PayloadNext == PayloadCopyBit \/ PayloadRead \/ PayloadWrite

SpecPayload == PayloadInit /\ [][PayloadNext]_vars

\* The writer's NAL unit: its buffer after the start code.
WrittenNal == BytesFrom(writer.buffer, 4)

\* C6: when the reader's payload() is called at any cursor c of a NAL unit and the
\* writer's payload() is called on the resulting Payload at the same offset, the
\* bits the writer emits from c to the end equal the buffer's bits from c to its
\* end, and the writer ends byte-aligned with the same total length.
C6_PayloadAlignment ==
    /\ pc # "panicked"
    /\ pc = "done" =>
        /\ Len(WrittenNal) = Len(reader.buffer)
        /\ BitsFrom(WrittenNal, arg.at) = BitsFrom(reader.buffer, arg.at)
        /\ writer.bit_index = 32 + 8 * Len(reader.buffer)
        /\ node.children = <<>>

\* A payload taken at an unaligned cursor in the first of two bytes.
C6_Witness ==
    /\ pc = "done" /\ arg.at = 3 /\ reader.buffer = <<165, 255>>
    /\ writer.buffer = StartCode4 \o <<165, 255>> /\ writer.bit_index = 48

(***************************************************************************)
(* more_data on the reader, at every cursor.                                *)
(***************************************************************************)
MoreDataBuffers ==
    {prefix \o <<last>> : prefix \in SeqsUpTo({165}, MaxNalLen - 1), last \in 0..255}

MoreDataInit ==
    /\ overflow_checks \in BOOLEAN
    /\ pc = "skip"
    /\ bitstream = <<>>
    /\ \E buf \in MoreDataBuffers : reader = BitstreamReader_new(buf)
    /\ writer = BitstreamWriter_new
    /\ node = Node("pps", <<>>)
    /\ text = <<>>
    /\ arg = NoArg
    /\ res = [k |-> "None", val |-> FALSE]

\* An earlier field moves the cursor on.
MoreDataSkip ==
    /\ pc = "skip"
    /\ \E b \in {read(reader, "Boolean", 1)} :
          /\ b.o.k = "Some"
          /\ reader' = b.r
    /\ UNCHANGED <<overflow_checks, pc, bitstream, writer, node, text, arg, res>>

\* reader.more_data(node)
MoreData ==
    /\ pc = "skip"
    /\ \E ps \in {reader_more_data(Processor("reader", reader, writer, node, H264State_new))} :
          res' = IF ps.panic = "" THEN [k |-> "Some", val |-> ps.more]
                 ELSE [k |-> "Panic", val |-> FALSE]
    /\ pc' = "done"
    /\ UNCHANGED <<overflow_checks, bitstream, reader, writer, node, text, arg>>

MoreDataNext == MoreDataSkip \/ MoreData

SpecMoreData == MoreDataInit /\ [][MoreDataNext]_vars

\* The bits from the cursor to the end of the cursor's byte, as a number, and
\* how many they are.
RestWidth == 8 - (reader.bit_index % 8)
RestBits == reader.buffer[Len(reader.buffer)] % Pow2(RestWidth)

\* C7: with the cursor anywhere in the final byte, more_data returns false if and
\* only if the bits from the cursor to the end of the byte are a 1 at the cursor
\* followed only by 0 bits; it returns true for every other pattern and whenever
\* the cursor is in an earlier byte; it never ends in a fatal error.
C7_MoreDataAsStated ==
    pc = "done" =>
        /\ res.k = "Some"
        /\ reader.bit_index \div 8 = Len(reader.buffer) - 1
                => (res.val = FALSE <=> RestBits = Pow2(RestWidth - 1))
        /\ reader.bit_index \div 8 < Len(reader.buffer) - 1 => res.val = TRUE

(***************************************************************************)
(* tokenize_h264_bitstream: the Annex-B splitter.                           *)
(***************************************************************************)
\* The && chain after the bound test: bitstream[curr_idx + k - 1] == code[k] for
\* each k, left to right; an index past the end is a fatal error.
RECURSIVE bytes_match(_, _, _, _)
bytes_match(bs, curr_idx, code, k) ==
    IF k > Len(code) THEN "yes"
    ELSE IF curr_idx + k > Len(bs) THEN "panic"
    ELSE IF bs[curr_idx + k] # code[k] THEN "no"
    ELSE bytes_match(bs, curr_idx, code, k + 1)

\* curr_idx < bitstream.len() - margin && <bytes match>.  The subtraction is on
\* usize: below zero it is a fatal error with overflow checks and wraps to a
\* huge bound without them.
start_code_at_m(bs, curr_idx, code, margin) == "no"
start_code_at(bs, curr_idx, code, margin) ==
    IF Len(bs) < margin
        THEN (IF overflow_checks THEN "panic" ELSE bytes_match(bs, curr_idx, code, 1))
    ELSE IF curr_idx < Len(bs) - margin THEN bytes_match(bs, curr_idx, code, 1)
    ELSE "no"

\* if curr_idx != start_idx { ret.push(BitstreamReader::new(&bitstream[start_idx..curr_idx])) }
push_nal(ret, bs, start_idx, curr_idx) ==
    IF curr_idx # start_idx
        THEN Append(ret, BitstreamReader_new(SubSeq(bs, start_idx + 1, curr_idx)))
        ELSE ret

\* The body of a start-code branch: push, then skip the start code.
consume(st, bs, n) ==
    [ret |-> push_nal(st.ret, bs, st.start_idx, st.curr_idx),
     start_idx |-> st.curr_idx + n, curr_idx |-> st.curr_idx + n, panic |-> FALSE]

\* while curr_idx < bitstream.len() { ... } on the loop's state st.
\* m3 is the else-if condition, m4 the if condition of the loop's body.
RECURSIVE tokenize_loop(_, _)
tokenize_else(st, bs, m3) ==
    IF m3 = "panic" THEN [st EXCEPT !.panic = TRUE]
    ELSE IF m3 = "yes" THEN tokenize_loop(consume(st, bs, 3), bs)
    ELSE tokenize_loop([st EXCEPT !.curr_idx = @ + 1], bs)

tokenize_if(st, bs, m4) ==
    IF m4 = "panic" THEN [st EXCEPT !.panic = TRUE]
    ELSE IF m4 = "yes" THEN tokenize_loop(consume(st, bs, 4), bs)
    ELSE tokenize_else(st, bs, start_code_at(bs, st.curr_idx, StartCode3, 3))

tokenize_loop(st, bs) ==
    IF ~(st.curr_idx < Len(bs)) THEN st
    ELSE tokenize_if(st, bs, start_code_at(bs, st.curr_idx, StartCode4, 4))

\* The push after the loop, on the loop's last state.
tokenize_end(st, bs) ==
    [ret |-> IF st.panic THEN st.ret ELSE push_nal(st.ret, bs, st.start_idx, st.curr_idx),
     panic |-> st.panic]

tokenize_h264_bitstream(bs) ==
    tokenize_end(tokenize_loop([ret |-> <<>>, start_idx |-> 0, curr_idx |-> 0, panic |-> FALSE], bs),
                 bs)

(***************************************************************************)
(* The splitter on S1 || N1 || S2 || N2.                                    *)
(***************************************************************************)
MaxSegLen == 3
SegBytes == {0, 1, 103}

HasStartCode(n) == \E i \in 1..(Len(n) - 2) : SubSeq(n, i, i + 2) = StartCode3

Segments == {n \in SeqsUpTo(SegBytes, MaxSegLen) : ~HasStartCode(n)}

TokenizeInit ==
    /\ overflow_checks \in BOOLEAN
    /\ pc = "tokenize"
    /\ \E s1 \in {StartCode3, StartCode4}, s2 \in {StartCode3, StartCode4},
          n1 \in Segments, n2 \in Segments \ {<<>>} :
          /\ arg = [s1 |-> s1, n1 |-> n1, s2 |-> s2, n2 |-> n2]
          /\ bitstream = s1 \o n1 \o s2 \o n2
    /\ reader = BitstreamReader_new(<<>>)
    /\ writer = BitstreamWriter_new
    /\ node = Node("nalu", <<>>)
    /\ text = <<>>
    /\ res = [ret |-> <<>>, panic |-> FALSE]

Tokenize ==
    /\ pc = "tokenize"
    /\ res' = tokenize_h264_bitstream(bitstream)
    /\ pc' = "done"
    /\ UNCHANGED <<overflow_checks, bitstream, reader, writer, node, text, arg>>

TokenizeNext == Tokenize

SpecTokenize == TokenizeInit /\ [][TokenizeNext]_vars

\* The readers' buffers, in order.
Buffers(readers) == [i \in 1..Len(readers) |-> readers[i].buffer]

TwoNals == Buffers(res.ret) = <<arg.n1, arg.n2>> /\ ~res.panic
EndsInZero(n) == Len(n) > 0 /\ n[Len(n)] = 0

\* C8 as stated: for all non-empty N1 and N2 without a start code and delimiters
\* S1, S2 of either length, the splitter returns exactly N1 and N2; a zero-length
\* segment between two start codes produces no NAL unit.
C8_SplitterAsStated ==
    pc = "done" =>
        /\ arg.n1 # <<>> => TwoNals
        /\ arg.n1 = <<>> => Buffers(res.ret) = <<arg.n2>> /\ ~res.panic

\* C8: the same, provided N1 does not end in a 00 byte when S2 is 00 00 01 (that
\* byte and S2 together read as the 4-byte start code).
C8_Splitter ==
    pc = "done" =>
        /\ (arg.n1 # <<>> /\ ~(arg.s2 = StartCode3 /\ EndsInZero(arg.n1))) => TwoNals
        /\ arg.n1 = <<>> => Buffers(res.ret) = <<arg.n2>> /\ ~res.panic

\* Two NAL units behind a 3-byte and a 4-byte delimiter, the first ending in 00.
C8_Witness ==
    /\ pc = "done"
    /\ arg = [s1 |-> StartCode3, n1 |-> <<103, 0>>, s2 |-> StartCode4, n2 |-> <<1, 0, 0>>]
    /\ Buffers(res.ret) = <<<<103, 0>>, <<1, 0, 0>>>>

(***************************************************************************)
(* The text form.  A String is a sequence of symbols: each of its           *)
(* characters is one symbol, except that a name (an identifier the          *)
(* traversal passes to field, subnode or payload, which holds none of the   *)
(* characters the printer and the parser look for) is one symbol as a       *)
(* whole.                                                                   *)
(***************************************************************************)
HexDigits == <<"0", "1", "2", "3", "4", "5", "6", "7", "8", "9", "A", "B", "C", "D", "E", "F">>
Whitespace == {" ", "\t", "\n"}

\* The concatenation of a sequence of sequences.
RECURSIVE Flatten(_)
Flatten(seqs) ==
    IF Len(seqs) = 0 THEN <<>>
    ELSE IF Len(seqs) = 1 THEN seqs[1]
    ELSE Flatten(SubSeq(seqs, 1, Len(seqs) \div 2))
            \o Flatten(SubSeq(seqs, (Len(seqs) \div 2) + 1, Len(seqs)))

\* The characters of a String put together again, as a name.
RECURSIVE Concat(_)
Concat(symbols) == IF symbols = <<>> THEN "" ELSE Head(symbols) \o Concat(Tail(symbols))

\* str::split(sep): the pieces between the separators, at least one piece.
split(str, sep) ==
    LET P == {i \in 1..Len(str) : str[i] = sep}
        n == Cardinality(P)
        pos(k) == IF k = 0 THEN 0
                  ELSE IF k = n + 1 THEN Len(str) + 1
                  ELSE CHOOSE i \in P : Cardinality({j \in P : j < i}) = k - 1
    IN [k \in 1..(n + 1) |-> SubSeq(str, pos(k - 1) + 1, pos(k) - 1)]

\* str::trim
trim(str) ==
    LET I == {i \in 1..Len(str) : str[i] \notin Whitespace}
    IN IF I = {} THEN <<>>
       ELSE SubSeq(str, CHOOSE i \in I : \A j \in I : i <= j, CHOOSE i \in I : \A j \in I : j <= i)

starts_with(str, pat) == Len(str) >= Len(pat) /\ SubSeq(str, 1, Len(pat)) = pat
ends_with(str, pat) == Len(str) >= Len(pat) /\ SubSeq(str, Len(str) - Len(pat) + 1, Len(str)) = pat

\* str::replace(pat, ""): every occurrence of pat, left to right, removed.
RECURSIVE remove_all(_, _)
remove_all(str, pat) ==
    IF str = <<>> THEN <<>>
    ELSE IF starts_with(str, pat) THEN remove_all(SubSeq(str, Len(pat) + 1, Len(str)), pat)
    ELSE <<Head(str)>> \o remove_all(Tail(str), pat)

\* i32::to_string: the decimal digits of a value <= 0, most significant first.
RECURSIVE neg_digits(_)
neg_digits(v) ==
    IF v > -10 THEN <<HexDigits[(-v) + 1]>>
    ELSE neg_digits(trunc_div(v, 10)) \o <<HexDigits[(-trunc_rem(v, 10)) + 1]>>

i32_to_string(v) == IF v < 0 THEN <<"-">> \o neg_digits(v) ELSE neg_digits(-v)

\* format!("{:02X}", x)
hex(x) == <<HexDigits[(x \div 16) + 1], HexDigits[(x % 16) + 1]>>

\* .collect::<Vec<String>>().join(" ")
join(strs, sep) ==
    Flatten([i \in 1..Len(strs) |-> IF i = 1 THEN strs[i] ELSE <<sep>> \o strs[i]])

\* for line in element.to_string().split('\n') { if line.trim().is_empty()
\* { continue; } ret = format!("{}\t{}\n", ret, line); }
indent(str) ==
    LET lines == split(str, "\n")
    IN Flatten([i \in 1..Len(lines) |->
                    IF trim(lines[i]) = <<>> THEN <<>> ELSE <<"\t">> \o lines[i] \o <<"\n">>])

\* impl ToString for SyntaxElement
RECURSIVE to_string(_)
to_string(element) ==
    CASE element.kind = "Field" ->
            <<element.name, ":", " ">> \o i32_to_string(element.val) \o <<"\n">>
      [] element.kind = "Node" ->
            <<element.name, " ", "{", "\n">>
                \o Flatten([i \in 1..Len(element.children) |-> indent(to_string(element.children[i]))])
                \o <<"}", "\n">>
      [] element.kind = "Payload" ->
            <<element.name, ":", " ", "\"">>
                \o join([i \in 1..Len(element.data) |-> hex(element.data[i])], " ")
                \o <<"\"", "\n">>

\* char::to_digit(radix) on the digits the printer writes; -1 is None.
to_digit(c, radix) ==
    IF \E d \in 1..radix : HexDigits[d] = c
        THEN (CHOOSE d \in 1..radix : HexDigits[d] = c) - 1
        ELSE -1

Err == [ok |-> FALSE, val |-> 0]
Ok(v) == [ok |-> TRUE, val |-> v]

\* The digit loop of from_str_radix on its state st = [acc, i]: the value is
\* accumulated upwards to max for a positive number and downwards to min for
\* a negative one; a symbol that is no digit, or a value past the limit, is Err.
RECURSIVE digits_up(_, _, _, _)
digit_up(st, src, radix, max, d) ==
    IF d < 0 THEN Err
    ELSE IF st.acc > (max - d) \div radix THEN Err
    ELSE digits_up([acc |-> st.acc * radix + d, i |-> st.i + 1], src, radix, max)

digits_up(st, src, radix, max) ==
    IF st.i > Len(src) THEN Ok(st.acc)
    ELSE digit_up(st, src, radix, max, to_digit(src[st.i], radix))

RECURSIVE digits_down(_, _, _, _)
digit_down(st, src, radix, min, d) ==
    IF d < 0 THEN Err
    ELSE IF st.acc < trunc_div(min + d, radix) THEN Err
    ELSE digits_down([acc |-> st.acc * radix - d, i |-> st.i + 1], src, radix, min)

digits_down(st, src, radix, min) ==
    IF st.i > Len(src) THEN Ok(st.acc)
    ELSE digit_down(st, src, radix, min, to_digit(src[st.i], radix))

\* <int>::from_str_radix(src, radix) for a type of range min..max.
from_str_radix(src, radix, min, max) ==
    IF src = <<>> \/ src = <<"+">> \/ src = <<"-">> THEN Err
    ELSE IF src[1] = "+" THEN digits_up([acc |-> 0, i |-> 2], src, radix, max)
    ELSE IF src[1] = "-" /\ min < 0 THEN digits_down([acc |-> 0, i |-> 2], src, radix, min)
    ELSE digits_up([acc |-> 0, i |-> 1], src, radix, max)

u8_from_str_radix(src, radix) == from_str_radix(src, radix, 0, 255)
i32_from_str_radix(src, radix) == from_str_radix(src, radix, MinI32, MaxI32)

\* str::find(":"), 1-based; the row contains one.
find(str, c) == CHOOSE i \in 1..Len(str) : str[i] = c /\ \A j \in 1..(i - 1) : str[j] # c

\* The branch `row.contains(":")`: [panic, el].
parse_bytes(name, bytes) ==
    [panic |-> \E i \in 1..Len(bytes) : ~u8_from_str_radix(bytes[i], 16).ok,
     el |-> Payload(name, [i \in 1..Len(bytes) |-> u8_from_str_radix(bytes[i], 16).val])]

parse_payload(name, val) ==
    IF Len(val) < 4 THEN [panic |-> TRUE, el |-> Payload(name, <<>>)]
    ELSE parse_bytes(name, split(SubSeq(val, 4, Len(val) - 1), " "))

parse_value(name, converted_val) ==
    [panic |-> ~converted_val.ok, el |-> Field(name, converted_val.val)]

parse_field(name, val) ==
    IF ~starts_with(val, <<":", " ">>) THEN [panic |-> TRUE, el |-> Field(name, 0)]
    ELSE parse_value(name, i32_from_str_radix(SubSeq(val, 3, Len(val)), 10))

is_payload(val) == starts_with(val, <<":", " ", "\"">>) /\ ends_with(val, <<"\"">>)

\* let (name, val) = row.split_at(k)
parse_split(name, val) ==
    IF is_payload(val) THEN parse_payload(name, val) ELSE parse_field(name, val)

parse_at(row, k) == parse_split(Concat(SubSeq(row, 1, k - 1)), SubSeq(row, k, Len(row)))

parse_leaf(row) == parse_at(row, find(row, ":"))

\* syntax_elements_from_string, on the state st = [ret, rows, panic] of its loop;
\* row is the trimmed front row, sub the recursive call's result and leaf the
\* element of a row with a colon.
RECURSIVE from_string_loop(_)
from_string_node(st, row, sub) ==
    IF sub.panic THEN [st EXCEPT !.panic = TRUE, !.rows = sub.rows]
    ELSE from_string_loop(
            [ret |-> Append(st.ret, Node(Concat(remove_all(row, <<" ", "{">>)), sub.ret)),
             rows |-> sub.rows, panic |-> FALSE])

from_string_leaf(st, leaf) ==
    IF leaf.panic THEN [st EXCEPT !.panic = TRUE]
    ELSE from_string_loop([st EXCEPT !.ret = Append(@, leaf.el), !.rows = Tail(@)])

from_string_row(st, row) ==
    IF row = <<"}">> THEN [st EXCEPT !.rows = Tail(@)]
    ELSE IF ends_with(row, <<" ", "{">>)
        THEN from_string_node(st, row,
                from_string_loop([ret |-> <<>>, rows |-> Tail(st.rows), panic |-> FALSE]))
    ELSE IF \E i \in 1..Len(row) : row[i] = ":"
        THEN from_string_leaf(st, parse_leaf(row))
    ELSE from_string_loop([st EXCEPT !.rows = Tail(@)])

from_string_loop(st) ==
    IF st.rows = <<>> THEN st
    ELSE from_string_row(st, trim(Head(st.rows)))

syntax_elements_from_string(rows) ==
    from_string_loop([ret |-> <<>>, rows |-> rows, panic |-> FALSE])

(***************************************************************************)
(* A tree printed and parsed back.                                          *)
(***************************************************************************)
MaxChildren == 2
MaxData == 2
FieldVals == {0, 7, 10, -1, -128, MaxI32, MinI32}
DataBytes == {0, 10, 255}

Leaves ==
    {Field("level_idc", v) : v \in FieldVals}
        \cup {Payload("filler_data", d) : d \in SeqsUpTo(DataBytes, MaxData)}
FewLeaves == {Field("level_idc", -128), Payload("filler_data", <<10, 255>>)}
Flat == {Node("sps", c) : c \in SeqsUpTo(Leaves, MaxChildren)}
FewFlat == {Node("sps", c) : c \in SeqsUpTo(FewLeaves, MaxChildren)}
Nested == {Node("nalu", <<a>> \o c \o <<b>>) : a \in FewLeaves, b \in FewLeaves,
                                               c \in SeqsUpTo(FewFlat, MaxChildren)}
Trees == Leaves \cup Flat \cup Nested

TextInit ==
    /\ overflow_checks \in BOOLEAN
    /\ pc = "print"
    /\ bitstream = <<>>
    /\ reader = BitstreamReader_new(<<>>)
    /\ writer = BitstreamWriter_new
    /\ node \in Trees
    /\ text = <<>>
    /\ arg = NoArg
    /\ res = [ret |-> <<>>, rows |-> <<>>, panic |-> FALSE]

\* element.to_string()
TextPrint ==
    /\ pc = "print"
    /\ text' = to_string(node)
    /\ pc' = "printed"
    /\ UNCHANGED <<overflow_checks, bitstream, reader, writer, node, arg, res>>

\* syntax_elements_from_string over the rows of the text
TextParse ==
    /\ pc = "printed"
    /\ res' = syntax_elements_from_string(split(text, "\n"))
    /\ pc' = "parsed"
    /\ UNCHANGED <<overflow_checks, bitstream, reader, writer, node, text, arg>>

TextNext == TextPrint \/ TextParse

SpecText == TextInit /\ [][TextNext]_vars

\* C9 as stated: every tree, Payloads with no data included, comes back from its
\* printed rows with the same kinds, names, values, bytes and child order.
C9_TextRoundTripAsStated == pc = "parsed" => ~res.panic /\ res.ret = <<node>>

(***************************************************************************)
(* process_nalu over one NAL unit: the reader builds the tree, then the     *)
(* writer consumes it.                                                      *)
(***************************************************************************)
\* NAL units that are traversed to their end: a baseline SPS, a PPS whose last
\* byte starts within the fields, an IDR slice and a P slice.
SpsNal == <<103, 66, 0, 30, 244, 242>>
PpsNal == <<104, 206, 23, 32>>
IdrNal == <<101, 136, 132, 10, 255, 255>>
PNal == <<65, 224, 2, 191, 165>>

\* With them a high-profile SPS and a PPS whose last byte holds the trailing
\* bits alone.
LongNals == {SpsNal, <<103, 100, 0, 30, 172, 233, 228>>, PpsNal, <<104, 206, 60, 128>>, IdrNal, PNal}

NaluInit ==
    /\ overflow_checks \in BOOLEAN
    /\ pc = "read"
    /\ bitstream \in {<<header>> \o data : header \in 0..255,
                                           data \in SeqsUpTo(PayloadBytes, MaxNalLen)} \cup LongNals
    /\ reader = BitstreamReader_new(bitstream)
    /\ writer = BitstreamWriter_new
    /\ node = Node("nalu", <<>>)
    /\ text = <<>>
    /\ arg = NoArg
    /\ res = H264State_new

\* process_nalu(&mut root, reader, &mut state)
NaluRead ==
    /\ pc = "read"
    /\ \E ps \in {process_nalu(Processor("reader", reader, writer, node, res))} :
          /\ reader' = ps.r
          /\ node' = Top(ps)
          /\ pc' = IF ps.panic = "" THEN "write" ELSE "panicked"
    /\ UNCHANGED <<overflow_checks, bitstream, writer, text, arg, res>>

\* process_nalu(&mut nalu, &mut writer, &mut state)
NaluWrite ==
    /\ pc = "write"
    /\ \E ps \in {process_nalu(Processor("writer", reader, writer, node, res))} :
          /\ writer' = ps.w
          /\ text' = Top(ps).children
          /\ arg' = [NoArg EXCEPT !.at = ps.left]
          /\ pc' = IF ps.panic = "" THEN "done" ELSE "panicked"
    /\ UNCHANGED <<overflow_checks, bitstream, reader, node, res>>

NaluNext == NaluRead \/ NaluWrite

SpecNalu == NaluInit /\ [][NaluNext]_vars

\* The three header fields of the NAL unit in bitstream.
forbidden_zero_bit == bitstream[1] \div 128
nal_ref_idc == (bitstream[1] \div 32) % 4
nal_unit_type == bitstream[1] % 32

\* nalu { forbidden_zero_bit, nal_ref_idc, nal_unit_type, <name> { filler_data } }
\* with the bytes after the header byte in filler_data.
OpaqueTree(name) ==
    Node("nalu", <<Field("forbidden_zero_bit", forbidden_zero_bit),
                   Field("nal_ref_idc", nal_ref_idc),
                   Field("nal_unit_type", nal_unit_type),
                   Node(name, <<Payload("filler_data", Tail(bitstream))>>)>>)

\* C10: for every NAL unit whose nal_unit_type is not in {1,2,3,4,5,7,8,12},
\* process_nalu over the reader ends without a fatal error in the tree
\* nalu { forbidden_zero_bit, nal_ref_idc, nal_unit_type, unparsed_nalu {
\* filler_data } } with the bytes after the header byte, and process_nalu over
\* the writer on that tree writes the NAL unit's bytes unchanged; type 12 does
\* the same under the name filler_nalu.
C10_UnknownNalRecovered ==
    nal_unit_type \notin {1, 2, 3, 4, 5, 7, 8} =>
        /\ pc # "panicked"
        /\ pc \in {"write", "done"} =>
              node = OpaqueTree(IF nal_unit_type = 12 THEN "filler_nalu" ELSE "unparsed_nalu")
        /\ pc = "done" => writer.buffer = bitstream /\ text = <<>>

\* An unknown type and a filler NAL unit, each written back; the second is a
\* header byte only.
C10_Witness ==
    /\ pc = "done"
    /\ bitstream \in {<<41, 165, 1>>, <<12>>}
    /\ writer.buffer = bitstream

(***************************************************************************)
(* parse_h264, serialize_h264 and main: a byte stream decoded to text, the  *)
(* text encoded to bytes, and those bytes decoded again.                    *)
(***************************************************************************)
\* for reader in &mut compressed_nalus { ... } on the loop's state st = [ret,
\* state, panic, i]; ps is the run of process_nalu over the i-th reader.
RECURSIVE parse_loop(_, _)
parse_turn(st, readers, ps) ==
    IF ps.panic # "" THEN [st EXCEPT !.panic = ps.panic]
    ELSE parse_loop([ret |-> Append(st.ret, Top(ps)), state |-> ps.state, panic |-> "",
                     i |-> st.i + 1],
                    readers)

parse_loop(st, readers) ==
    IF st.i > Len(readers) THEN st
    ELSE parse_turn(st, readers,
                    process_nalu(Processor("reader", readers[st.i], BitstreamWriter_new,
                                           Node("nalu", <<>>), st.state)))

\* compressed_nalus is the result of tokenize_h264_bitstream.
parse_readers(compressed_nalus) ==
    IF compressed_nalus.panic
        THEN [ret |-> <<>>, state |-> H264State_new, panic |-> "tokenize", i |-> 1]
        ELSE parse_loop([ret |-> <<>>, state |-> H264State_new, panic |-> "", i |-> 1],
                        compressed_nalus.ret)

parse_h264(bs) == parse_readers(tokenize_h264_bitstream(bs))

\* main, -d: for nalu in &nalus { human_readable = format!("{}{}", human_readable,
\* nalu.to_string()) }
human_readable_of(nalus) == Flatten([i \in 1..Len(nalus) |-> to_string(nalus[i])])

\* while nalus.len() > 0 { ... } on the loop's state st = [nalus, w, state, panic,
\* left]; ps is the run of process_nalu over the writer on the front element,
\* after the four bytes of the start code.
RECURSIVE serialize_loop(_)
serialize_turn(st, ps) ==
    IF ps.panic # "" THEN [st EXCEPT !.w = ps.w, !.panic = ps.panic]
    ELSE serialize_loop([nalus |-> Tail(st.nalus), w |-> ps.w, state |-> ps.state, panic |-> "",
                         left |-> st.left + ps.left + Len(Top(ps).children)])

serialize_loop(st) ==
    IF st.nalus = <<>> THEN st
    ELSE IF Head(st.nalus).kind # "Node"
        THEN [st EXCEPT !.w = write_bytes([w |-> st.w, i |-> 1], StartCode4),
                        !.panic = "Invalid syntax element!"]
    ELSE serialize_turn(st,
            process_nalu(Processor("writer", BitstreamReader_new(<<>>),
                                   write_bytes([w |-> st.w, i |-> 1], StartCode4),
                                   Head(st.nalus), st.state)))

\* parsed is the result of syntax_elements_from_string.
serialize_elements(parsed) ==
    IF parsed.panic
        THEN [nalus |-> <<>>, w |-> BitstreamWriter_new, state |-> H264State_new,
              panic |-> "unwrap", left |-> 0]
        ELSE serialize_loop([nalus |-> parsed.ret, w |-> BitstreamWriter_new,
                             state |-> H264State_new, panic |-> "", left |-> 0])

serialize_h264(human_readable) ==
    serialize_elements(syntax_elements_from_string(split(human_readable, "\n")))

\* The NAL units of the input files: filler and unknown types with and without
\* bytes after the header, an SPS, a PPS, an IDR slice and a P slice.
FileNals == {<<12>>, <<12, 255>>, <<41, 165, 1>>, SpsNal, PpsNal, IdrNal, PNal}

\* Files too short for the tokenizer's index arithmetic.
ShortFiles == {<<>>, <<12>>, <<0, 0, 1>>}

\* A stream of parameter sets and slices, under start codes of one length s.
Movie(s) == s \o SpsNal \o s \o PpsNal \o s \o IdrNal \o s \o PNal

\* Input files: bytes before the first start code or none, then one or two NAL
\* units, each after a start code of either length.
Files ==
    {pre \o s1 \o n1 \o rest :
        pre \in {<<>>, <<255>>}, s1 \in {StartCode3, StartCode4}, n1 \in FileNals,
        rest \in {<<>>} \cup {s2 \o n2 : s2 \in {StartCode3, StartCode4}, n2 \in FileNals}}
        \cup ShortFiles \cup {Movie(StartCode3), Movie(StartCode4)}

Init ==
    /\ overflow_checks \in BOOLEAN
    /\ pc = "start"
    /\ bitstream \in Files
    /\ reader = BitstreamReader_new(<<>>)
    /\ writer = BitstreamWriter_new
    /\ node = <<>>
    /\ text = <<>>
    /\ arg = NoArg
    /\ res = <<>>

\* main -d on the file bitstream: the forest in node, the text written in text
Decode ==
    /\ pc = "start"
    /\ \E parsed \in {parse_h264(bitstream)} :
          /\ node' = parsed.ret
          /\ text' = IF parsed.panic = "" THEN human_readable_of(parsed.ret) ELSE <<>>
          /\ pc' = IF parsed.panic = "" THEN "decoded" ELSE "decode_panicked"
    /\ UNCHANGED <<overflow_checks, bitstream, reader, writer, arg, res>>

\* main -e on the file text: the bytes written in writer.buffer
Encode ==
    /\ pc = "decoded"
    /\ \E st \in {serialize_h264(text)} :
          /\ writer' = st.w
          /\ arg' = [NoArg EXCEPT !.at = st.left]
          /\ pc' = IF st.panic = "" THEN "encoded" ELSE "encode_panicked"
    /\ UNCHANGED <<overflow_checks, bitstream, reader, node, text, res>>

\* main -d on the file the encoder wrote: the text written in res
Redecode ==
    /\ pc = "encoded"
    /\ \E parsed \in {parse_h264(writer.buffer)} :
          /\ res' = IF parsed.panic = "" THEN human_readable_of(parsed.ret) ELSE <<>>
          /\ pc' = IF parsed.panic = "" THEN "redecoded" ELSE "redecode_panicked"
    /\ UNCHANGED <<overflow_checks, bitstream, reader, writer, node, text, arg>>

Next == Decode \/ Encode \/ Redecode

Spec == Init /\ [][Next]_vars

\* C1 as stated: for every byte stream parse_h264 accepts, serialize_h264 on the
\* printed forest ends without a fatal error and returns the stream byte for
\* byte, whatever the lengths of its start codes and the bytes before the first.
C1_EncodeOfDecodeAsStated ==
    /\ pc # "encode_panicked"
    /\ pc \in {"encoded", "redecoded", "redecode_panicked"} => writer.buffer = bitstream

\* C2 as stated: for every text that parse_h264 and the printer produce,
\* serialize_h264 ends without a fatal error and its output, parsed and printed
\* again, is that text, NAL units of the header byte alone included.
C2_DecodeOfEncodeAsStated ==
    /\ pc \notin {"encode_panicked", "redecode_panicked"}
    /\ pc = "redecoded" => res = text

(***************************************************************************)
(* The writer's field, subnode and payload on a node that does not hold     *)
(* what they expect.                                                        *)
(***************************************************************************)
MismatchKids ==
    {Field("a", 1), Field("b", 0), Node("a", <<Payload("a", <<255>>)>>), Node("b", <<>>),
     Payload("a", <<255>>), Payload("b", <<>>)}

MismatchInit ==
    /\ overflow_checks \in BOOLEAN
    /\ pc = "pad"
    /\ bitstream = <<>>
    /\ reader = BitstreamReader_new(<<>>)
    /\ writer = BitstreamWriter_new
    /\ node \in {Node("nalu", children) : children \in SeqsUpTo(MismatchKids, 2)}
    /\ text = <<>>
    /\ arg = NoArg
    /\ res = ""

\* One call of the writer on node; ps is the run after the call.
MismatchCalled(op, name, ps) ==
    /\ writer' = ps.w
    /\ node' = ps.stack[1]
    /\ res' = ps.panic
    /\ arg' = [op |-> op, name |-> name, w |-> writer, children |-> node.children]
    /\ pc' = "called"
    /\ UNCHANGED <<overflow_checks, bitstream, reader, text>>

\* writer.field(node, name, UnsignedInt, 3)
MismatchField(name) ==
    /\ pc = "pad"
    /\ \E ps \in {field(Processor("writer", reader, writer, node, H264State_new),
                        name, "UnsignedInt", 3)} :
          MismatchCalled("Field", name, ps)

\* writer.subnode(node, name, process_filler)
MismatchSubnode(name) ==
    /\ pc = "pad"
    /\ \E ps \in {subnode_leave(process_filler(subnode_enter(
                        Processor("writer", reader, writer, node, H264State_new), name)))} :
          MismatchCalled("Node", name, ps)

\* writer.payload(node, name)
MismatchPayload(name) ==
    /\ pc = "pad"
    /\ \E ps \in {payload(Processor("writer", reader, writer, node, H264State_new), name)} :
          MismatchCalled("Payload", name, ps)

MismatchNext ==
    \/ \E b \in {0, 1} : CodecPad(b)
    \/ \E name \in {"a", "b"} : MismatchField(name)
    \/ \E name \in {"a", "b"} : MismatchSubnode(name)
    \/ \E name \in {"a", "b"} : MismatchPayload(name)

SpecMismatch == MismatchInit /\ [][MismatchNext]_vars

\* The node of the call had no child, or its front child was not of the kind
\* the operation expects, or not of the name it was called with.
Mismatch ==
    \/ arg.children = <<>>
    \/ arg.children[1].kind # arg.op
    \/ arg.children[1].name # arg.name

\* C11: a writer operation called with name X on a node whose child queue is
\* empty, or whose front child is of another kind or of another name, ends in
\* a fatal error, and the writer's buffer and cursor are as they were before.
C11_WriterMismatchFatal ==
    (pc = "called" /\ Mismatch) => (res # "" /\ writer = arg.w)

\* field("a") on a node whose front child is the Field b, at bit offset 1.
C11_Witness ==
    /\ pc = "called"
    /\ arg.op = "Field" /\ arg.name = "a"
    /\ arg.children # <<>> /\ arg.children[1] = Field("b", 0)
    /\ res = "name"
    /\ writer.bit_index = 1

(***************************************************************************)
(* serialize_h264 on the text of a tree that holds more than the syntax     *)
(* asks for.                                                                *)
(***************************************************************************)
\* Nothing, or one more element of each kind.
EncodeExtras ==
    {<<>>, <<Field("extra", 1)>>, <<Payload("filler_data", <<1>>)>>, <<Node("extra", <<>>)>>}

\* A NAL unit that is not parsed, with inner behind its filler_data and outer
\* behind its subnode.
EncodeTree(ref_idc, nalu_type, data, inner, outer) ==
    Node("nalu", << Field("forbidden_zero_bit", 0),
                    Field("nal_ref_idc", ref_idc),
                    Field("nal_unit_type", nalu_type),
                    Node(unparsed_name(nalu_type), <<Payload("filler_data", data)>> \o inner) >>
                 \o outer)

EncodeForests ==
    {<<EncodeTree(ref_idc, nalu_type, data, inner, outer)>> :
        ref_idc \in {0, 1}, nalu_type \in {6, 12}, data \in {<<255>>, <<1, 128>>},
        inner \in EncodeExtras, outer \in EncodeExtras}

EncodeInit ==
    /\ overflow_checks \in BOOLEAN
    /\ pc = "tree"
    /\ bitstream = <<>>
    /\ reader = BitstreamReader_new(<<>>)
    /\ writer = BitstreamWriter_new
    /\ node \in EncodeForests
    /\ text = <<>>
    /\ arg = NoArg
    /\ res = <<>>

\* The text file of the forest.
EncodePrint ==
    /\ pc = "tree"
    /\ text' = human_readable_of(node)
    /\ pc' = "decoded"
    /\ UNCHANGED <<overflow_checks, bitstream, reader, writer, node, arg, res>>

EncodeNext == EncodePrint \/ Encode

SpecEncode == EncodeInit /\ [][EncodeNext]_vars

\* C12 as stated: whenever serialize_h264 ends without a fatal error, every
\* node the writer has visited (each nalu root and each subnode it popped) has
\* no child left.
C12_EncodeConsumesAsStated == pc = "encoded" => arg.at = 0

(***************************************************************************)
(* A stream of NAL units, read one by one as parse_h264 reads them and      *)
(* written one by one as serialize_h264 writes them.  The reader's and the  *)
(* writer's H264State are kept apart: res is the reader's, text.state the   *)
(* writer's.                                                                *)
(***************************************************************************)
\* Sequence parameter sets: baseline with pic_order_cnt_type 0; high with
\* chroma_format_idc 3, separate_color_plane_flag 1 and
\* log2_max_pic_order_cnt_lsb_minus4 2; baseline with pic_order_cnt_type 1 and
\* delta_pic_order_always_zero_flag 1; baseline with pic_order_cnt_type 2.
\* Picture parameter sets with weighted_pred_flag 1 and weighted_bipred_idc 1:
\* the reference counts' defaults 0 and 0, then 1 and 2.
\* Slices written for the state after SpsBaseline and PpsWeighted.
SpsBaseline == <<103, 66, 0, 30, 244, 35, 200>>
SpsHigh444 == <<103, 100, 0, 30, 147, 155, 66, 60, 128>>
SpsPoc1 == <<103, 66, 0, 30, 215, 161, 30, 64>>
SpsPoc2 == <<103, 66, 0, 30, 218, 17, 228>>
PpsWeighted == <<104, 83, 222, 32>>
PpsDefaults == <<104, 82, 157, 226>>
SliceP == <<1, 234, 102, 24, 165, 255>>
SlicePOverride == <<1, 234, 116, 195, 165, 255>>
SliceB == <<1, 170, 157, 51, 165, 255>>
SliceBOverride == <<1, 170, 159, 153, 128, 165, 255>>
SliceIdr == <<101, 186, 204, 192, 165, 255>>

\* Picture parameter sets whose fields end at bit offsets 0, 2 and 4 of a byte,
\* without and with the transform_8x8_mode_flag block, followed by the bits
\* 1, 01, 11 or none.
PpsTails ==
    {<<104, 36, 227, 128>>,
     <<104, 36, 227, 129, 128>>,
     <<104, 36, 227, 129, 160>>,
     <<104, 36, 227, 129, 192>>,
     <<104, 36, 227, 129, 224>>,
     <<104, 36, 227, 132>>,
     <<104, 36, 227, 136>>,
     <<104, 36, 227, 137, 128>>,
     <<104, 36, 227, 137, 160>>,
     <<104, 36, 227, 137, 192>>,
     <<104, 36, 227, 137, 224>>,
     <<104, 36, 227, 140>>,
     <<104, 83, 142, 0>>,
     <<104, 83, 142, 6>>,
     <<104, 83, 142, 6, 128>>,
     <<104, 83, 142, 7>>,
     <<104, 83, 142, 7, 128>>,
     <<104, 83, 142, 16>>,
     <<104, 83, 142, 32>>,
     <<104, 83, 142, 38>>,
     <<104, 83, 142, 38, 128>>,
     <<104, 83, 142, 39>>,
     <<104, 83, 142, 39, 128>>,
     <<104, 83, 142, 48>>,
     <<104, 206, 56>>,
     <<104, 206, 56, 24>>,
     <<104, 206, 56, 26>>,
     <<104, 206, 56, 28>>,
     <<104, 206, 56, 30>>,
     <<104, 206, 56, 64>>,
     <<104, 206, 56, 128>>,
     <<104, 206, 56, 152>>,
     <<104, 206, 56, 154>>,
     <<104, 206, 56, 156>>,
     <<104, 206, 56, 158>>,
     <<104, 206, 56, 192>>}

StreamSps == {SpsBaseline, SpsHigh444, SpsPoc1, SpsPoc2}
StreamPps == {PpsWeighted, PpsDefaults}
StreamSlices == {SliceP, SlicePOverride, SliceB, SliceBOverride, SliceIdr}

Streams ==
    {<<s, p, x>> : s \in StreamSps, p \in StreamPps, x \in StreamSlices}
        \cup {<<s1, s2>> : s1 \in StreamSps, s2 \in StreamSps}
        \cup {<<p>> : p \in PpsTails}

\* The writer's side of the stream before anything is written.
StreamWriterStart == [state |-> H264State_new, more |-> FALSE, panic |-> ""]

StreamInit ==
    /\ overflow_checks \in BOOLEAN
    /\ pc = "read"
    /\ bitstream \in Streams
    /\ reader = BitstreamReader_new(<<>>)
    /\ writer = BitstreamWriter_new
    /\ node = Node("nalu", <<>>)
    /\ text = StreamWriterStart
    /\ arg = [i |-> 1, state |-> H264State_new, more |-> FALSE, pps |-> Node("pps", <<>>)]
    /\ res = H264State_new

\* The nal_unit_type of a parsed nalu node and its subnode (sps, pps, slice, ...).
TypeOf(nalu) == nalu.children[3].val
BodyOf(nalu) == nalu.children[4]

\* parse_h264, one turn of its loop: process_nalu over the reader of the next
\* NAL unit.  arg keeps the state before the turn, what more_data returned and
\* the last pps node.
StreamRead ==
    /\ pc = "read"
    /\ arg.i <= Len(bitstream)
    /\ \E ps \in {process_nalu(Processor("reader", BitstreamReader_new(bitstream[arg.i]),
                                         BitstreamWriter_new, Node("nalu", <<>>), res))} :
          /\ reader' = ps.r
          /\ node' = Top(ps)
          /\ res' = ps.state
          /\ pc' = IF ps.panic = "" THEN "write" ELSE "read_panicked"
          /\ arg' = [i |-> arg.i, state |-> res, more |-> ps.more,
                     pps |-> IF ps.panic = "" /\ TypeOf(Top(ps)) = 8
                                THEN BodyOf(Top(ps)) ELSE arg.pps]
    /\ UNCHANGED <<overflow_checks, bitstream, writer, text>>

\* serialize_h264, one turn of its loop: the start code, then process_nalu over
\* the writer on the node just read.
StreamWrite ==
    /\ pc = "write"
    /\ \E ps \in {process_nalu(Processor("writer", BitstreamReader_new(<<>>),
                                         write_bytes([w |-> writer, i |-> 1], StartCode4),
                                         node, text.state))} :
          /\ writer' = ps.w
          /\ text' = [state |-> ps.state, more |-> ps.more, panic |-> ps.panic]
          /\ pc' = IF ps.panic = "" THEN "read" ELSE "write_panicked"
    /\ arg' = [arg EXCEPT !.i = @ + 1]
    /\ UNCHANGED <<overflow_checks, bitstream, reader, node, res>>

StreamNext == StreamRead \/ StreamWrite

SpecStream == StreamInit /\ [][StreamNext]_vars

\* The children of n named name, whether there is one, how many, and the value
\* of the one Field of that name (d when there is none).
Where(n, name) == {i \in 1..Len(n.children) : n.children[i].name = name}
Has(n, name) == Where(n, name) # {}
Count(n, name) == Cardinality(Where(n, name))
ValueOf(n, name, d) ==
    IF Has(n, name) THEN n.children[CHOOSE i \in Where(n, name) : TRUE].val ELSE d

\* The last action read a NAL unit of this type, or wrote one.
JustRead(nalu_types) == pc = "write" /\ TypeOf(node) \in nalu_types
JustWrote(nalu_types) ==
    /\ (pc = "read" /\ arg.i > 1) \/ pc = "write_panicked"
    /\ TypeOf(node) \in nalu_types

\* The subnode of n named name, and the slice_header of a parsed slice NAL unit.
Sub(n, name) == n.children[CHOOSE i \in Where(n, name) : TRUE]
HeaderOf(nalu) == BodyOf(nalu).children[1]

\* C13 as stated: after a PPS the state's num_ref_idx_l0_active_minus1 and
\* num_ref_idx_l1_active_minus1 are that PPS's two defaults, and a
\* pred_weight_table read after it holds one luma_weight_l0_flag for each
\* i = 0..=num_ref_idx_l0_default_active_minus1 of the last PPS.
C13_PredWeightSizingAsStated ==
    /\ JustRead({8}) =>
          /\ res.num_ref_idx_l0_active_minus1 =
                ValueOf(BodyOf(node), "num_ref_idx_l0_default_active_minus1", 0)
          /\ res.num_ref_idx_l1_active_minus1 =
                ValueOf(BodyOf(node), "num_ref_idx_l1_default_active_minus1", 0)
    /\ (JustRead({1, 5}) /\ Has(HeaderOf(node), "pred_weight_table")) =>
          Count(Sub(HeaderOf(node), "pred_weight_table"), "luma_weight_l0_flag") =
                ValueOf(arg.pps, "num_ref_idx_l0_default_active_minus1", 0) + 1

\* C15 as stated: after an SPS the state's chroma_format_idc,
\* separate_color_plane_flag, log2_max_pic_order_cnt_lsb_minus4 and
\* delta_pic_order_always_zero_flag are the values of that SPS's fields of
\* these names, and the defaults 1, false, 0, false for the fields it does not
\* hold; and a slice leaves the state as it was.
C15_StateDescribesSpsAsStated ==
    /\ JustRead({7}) =>
          /\ res.chroma_format_idc = ValueOf(BodyOf(node), "chroma_format_idc", 1)
          /\ res.separate_color_plane_flag =
                (ValueOf(BodyOf(node), "separate_color_plane_flag", 0) # 0)
          /\ res.log2_max_pic_order_cnt_lsb_minus4 =
                ValueOf(BodyOf(node), "log2_max_pic_order_cnt_lsb_minus4", 0)
          /\ res.delta_pic_order_always_zero_flag =
                (ValueOf(BodyOf(node), "delta_pic_order_always_zero_flag", 0) # 0)
    /\ JustRead({1, 5}) => res = arg.state

\* C16 as stated: in the slice_header of a P, SP or B slice,
\* num_ref_idx_l0_active_minus1 is there exactly when
\* num_ref_idx_active_override_flag is 1, and num_ref_idx_l1_active_minus1
\* exactly when the flag is 1 and the slice is a B slice.
C16_OverrideCountsAsStated ==
    (JustRead({1, 5}) /\ Has(HeaderOf(node), "num_ref_idx_active_override_flag")) =>
        /\ Has(HeaderOf(node), "num_ref_idx_l0_active_minus1")
              <=> ValueOf(HeaderOf(node), "num_ref_idx_active_override_flag", 0) = 1
        /\ Has(HeaderOf(node), "num_ref_idx_l1_active_minus1")
              <=> /\ ValueOf(HeaderOf(node), "num_ref_idx_active_override_flag", 0) = 1
                  /\ int_to_slice_type(ValueOf(HeaderOf(node), "slice_type", 0)) = "B"

\* C17: for every PPS the reader parses without a fatal error, the writer on
\* the pps node ends without a fatal error, and its more_data returns what the
\* reader's more_data returned.
C17_MoreDataAgreement ==
    JustWrote({8}) => (pc # "write_panicked" /\ text.more = arg.more)

\* A PPS with the transform_8x8_mode_flag block: both sides have seen more data.
C17_Witness ==
    /\ JustWrote({8})
    /\ bitstream = <<<<104, 36, 227, 137, 128>>>>
    /\ arg.more /\ text.more
    /\ Has(BodyOf(node), "transform_8x8_mode_flag")
    /\ writer.buffer = StartCode4 \o bitstream[1]

(***************************************************************************)
(* The width of slice_group_change_cycle, over the values the state can     *)
(* hold after a PPS of slice_group_map_type 6 and one of type 3, 4 or 5.    *)
(***************************************************************************)
MaxCycle == 8

CycleInit ==
    /\ overflow_checks \in BOOLEAN
    /\ pc = "read"
    /\ bitstream = <<255, 255, 255, 255, 255>>
    /\ reader = BitstreamReader_new(bitstream)
    /\ writer = BitstreamWriter_new
    /\ node = Node("slice_header", <<>>)
    /\ text = <<>>
    /\ arg = NoArg
    /\ \E map_type \in 3..5, size \in 0..MaxCycle, rate \in 0..MaxCycle :
          res = [H264State_new EXCEPT !.num_slice_groups_minus1 = 1,
                                      !.slice_group_map_type = map_type,
                                      !.pic_size_in_map_units_minus1 = size,
                                      !.slice_group_change_rate_minus1 = rate]

\* The last block of process_slice_header over the reader.
CycleRead ==
    /\ pc = "read"
    /\ \E ps \in {sh_change_cycle(Processor("reader", reader, writer, node, res))} :
          /\ reader' = ps.r
          /\ node' = Top(ps)
          /\ pc' = IF ps.panic = "" THEN "write" ELSE "panicked"
    /\ UNCHANGED <<overflow_checks, bitstream, writer, text, arg, res>>

\* The same block over the writer, on the node the reader has filled.
CycleWrite ==
    /\ pc = "write"
    /\ \E ps \in {sh_change_cycle(Processor("writer", reader, writer, node, res))} :
          /\ writer' = ps.w
          /\ pc' = IF ps.panic = "" THEN "done" ELSE "panicked"
    /\ UNCHANGED <<overflow_checks, bitstream, reader, node, text, arg, res>>

CycleNext == CycleRead \/ CycleWrite

SpecCycle == CycleInit /\ [][CycleNext]_vars

\* ceil(log2(x)) for x >= 1, and ceil(a / b) for a >= 0 and b > 0.
CeilLog2(x) == CHOOSE k \in 0..32 : Pow2(k) >= x /\ (k = 0 \/ Pow2(k - 1) < x)
CeilDiv(a, b) == (a + b - 1) \div b

\* C14 as stated: the field is read and written with exactly
\* ceil(log2(ceil((pic_size_in_map_units_minus1 + 1) /
\* (slice_group_change_rate_minus1 + 1)) + 1)) bits, for all values of the two.
C14_ChangeCycleWidthAsStated ==
    /\ pc # "panicked"
    /\ pc \in {"write", "done"} =>
          reader.bit_index = CeilLog2(CeilDiv(res.pic_size_in_map_units_minus1 + 1,
                                              res.slice_group_change_rate_minus1 + 1) + 1)
    /\ pc = "done" => writer.bit_index = reader.bit_index

(***************************************************************************)
(* read(UnsignedExpGolomb) over codes of up to 39 leading zero bits.        *)
(***************************************************************************)
\* The zero bytes before the byte with the first 1 bit, that byte, and the
\* four bytes after it.
UeBuffers ==
    {zeros \o <<first>> \o rest :
        zeros \in SeqsUpTo({0}, 4), first \in {128, 3, 2, 1}, rest \in [1..4 -> {0, 1, 255}]}

UeInit ==
    /\ overflow_checks \in BOOLEAN
    /\ pc = "read"
    /\ bitstream \in UeBuffers
    /\ reader = BitstreamReader_new(bitstream)
    /\ writer = BitstreamWriter_new
    /\ node = <<>>
    /\ text = <<>>
    /\ arg = NoArg
    /\ res = None

\* reader.read(UnsignedExpGolomb, 0)
UeRead ==
    /\ pc = "read"
    /\ \E r \in {read(reader, "UnsignedExpGolomb", 0)} :
          /\ reader' = r.r
          /\ res' = r.o
    /\ pc' = "done"
    /\ UNCHANGED <<overflow_checks, bitstream, writer, node, text, arg>>

UeNext == UeRead

SpecUe == UeInit /\ [][UeNext]_vars

\* C18 as stated: every value read(UnsignedExpGolomb, _) returns as Some(k) has
\* k >= 0, whatever the bits are.
C18_UeNonNegativeAsStated == (pc = "done" /\ res.k = "Some") => res.val >= 0

(***************************************************************************)
(* The splitter on every byte vector of a few bytes.                        *)
(***************************************************************************)
MaxSplitLen == 5

SplitInit ==
    /\ overflow_checks \in BOOLEAN
    /\ pc = "tokenize"
    /\ bitstream \in SeqsUpTo(SegBytes, MaxSplitLen)
    /\ reader = BitstreamReader_new(<<>>)
    /\ writer = BitstreamWriter_new
    /\ node = Node("nalu", <<>>)
    /\ text = <<>>
    /\ arg = NoArg
    /\ res = [ret |-> <<>>, panic |-> FALSE]

SplitNext == Tokenize

SpecSplit == SplitInit /\ [][SplitNext]_vars

\* C19 as stated: on every byte vector the splitter returns without a fatal
\* error, every NAL unit it returns is non-empty, and none holds a start code.
C19_SplitterTotalAsStated ==
    pc = "done" =>
        /\ ~res.panic
        /\ \A i \in 1..Len(res.ret) :
              res.ret[i].buffer # <<>> /\ ~HasStartCode(res.ret[i].buffer)

(***************************************************************************)
(* The loops of the traversal, one iteration per step: the two loops of     *)
(* process_ref_pic_list_modification and the loop of                        *)
(* process_dec_ref_pic_marking, which end on a value read, and the for      *)
(* loops whose bound is a field's value (offset_for_ref_frame in            *)
(* process_sps; run_length_minus1, top_left / bottom_right and              *)
(* slice_group_id in process_pps).  The reader runs a loop over its buffer, *)
(* then the writer runs the same loop over the node the reader has filled.  *)
(***************************************************************************)
MaxLoopLen == 2     \* bytes in the reader's buffer
MaxLoopCount == 2   \* the largest bound of a for loop

\* 1111 1111, 0000 0000, 0100 1001, 0110 1101, 1010 0110
LoopBytes == {255, 0, 73, 109, 166}

\* The values num_slice_groups_minus1 can have where a PPS goes on to its slice
\* groups (> 0): small ones, and i32::MAX, which read() yields for 31 zeros, a 1
\* and 31 zeros only in a build without overflow checks.
LoopGroups == {1, 2, 7} \cup (IF overflow_checks THEN {} ELSE {MaxI32})

\* A for loop: the names of the fields of one iteration, their type and width,
\* and the bound `to` of `for i in 0..to`.
ForLoop(names, field_type, n, to) ==
    [loop |-> "for", names |-> names, ft |-> field_type, n |-> n, to |-> to,
     i |-> 0, mode |-> "reader"]

\* A loop { } of the traversal.
BreakLoop(loop) == [ForLoop(<<>>, "UnsignedExpGolomb", 0, 0) EXCEPT !.loop = loop]

LoopShapes ==
    {BreakLoop("modification"), BreakLoop("marking")}
    \cup {ForLoop(<<"offset_for_ref_frame">>, "SignedExpGolomb", 0, to) : to \in 0..MaxLoopCount}
    \cup {ForLoop(<<"run_length_minus1">>, "UnsignedExpGolomb", 0, add_i32(g, 1).val) :
            g \in 1..(MaxLoopCount - 1)}
    \cup {ForLoop(<<"top_left", "bottom_right">>, "UnsignedExpGolomb", 0, g) :
            g \in 1..MaxLoopCount}
    \cup {ForLoop(<<"slice_group_id">>, "UnsignedInt", ceil_log2_u8(add_i32(g, 1).val), to) :
            g \in LoopGroups, to \in 1..MaxLoopCount}

\* What the loop has left to use up: the unread bits of the reader's buffer,
\* or the children of the writer's node.
Remaining(mode, r, n) ==
    IF mode = "reader" THEN 8 * Len(r.buffer) - r.bit_index ELSE Len(n.children)

LoopStart(shape) == IF shape.loop = "for" /\ shape.to <= 0 THEN "finished" ELSE "turn"

NoTurn(shape, r, n) ==
    [turns |-> 0, before |-> Remaining(shape.mode, r, n),
     after |-> Remaining(shape.mode, r, n)]

LoopInit ==
    /\ overflow_checks \in BOOLEAN
    /\ bitstream \in SeqsUpTo(LoopBytes, MaxLoopLen)
    /\ reader = BitstreamReader_new(bitstream)
    /\ writer = BitstreamWriter_new
    /\ node = Node("loop", <<>>)
    /\ text = <<>>
    /\ arg \in LoopShapes
    /\ pc = LoopStart(arg)
    /\ res = NoTurn(arg, reader, node)

LoopRun == Processor(arg.mode, reader, writer, node, H264State_new)

\* The state after one iteration that left the run q and goes on at `next`.
LoopTurned(q, next) ==
    /\ reader' = q.r
    /\ writer' = q.w
    /\ node' = Top(q)
    /\ pc' = IF q.panic # "" THEN "panicked" ELSE next
    /\ res' = [turns |-> res.turns + 1,
               before |-> Remaining(arg.mode, reader, node),
               after |-> Remaining(arg.mode, q.r, Top(q))]
    /\ UNCHANGED <<overflow_checks, bitstream, text>>

\* One iteration of loop { modification_of_pic_nums_idc; match ... }.
ModificationTurn ==
    /\ pc = "turn"
    /\ arg.loop = "modification"
    /\ \E p \in {field(LoopRun, "modification_of_pic_nums_idc", "UnsignedExpGolomb", 0)} :
          IF modification_breaks(p)
             THEN LoopTurned(p, "broke")
             ELSE LoopTurned(modification_arm(p), "turn")
    /\ UNCHANGED arg

\* One iteration of loop { memory_management_control_operation; ... }.
MarkingTurn ==
    /\ pc = "turn"
    /\ arg.loop = "marking"
    /\ \E p \in {field(LoopRun, "memory_management_control_operation",
                       "UnsignedExpGolomb", 0)} :
          IF marking_breaks(p)
             THEN LoopTurned(p, "broke")
             ELSE LoopTurned(marking_1(p, p.ret), "turn")
    /\ UNCHANGED arg

\* One iteration of for i in 0..to { field(node, &format!("name[{}]", i), ...) }.
ForTurn ==
    /\ pc = "turn"
    /\ arg.loop = "for"
    /\ arg.i < arg.to
    /\ LoopTurned(indexed_fields(LoopRun, arg.names, arg.ft, arg.n, arg.i, arg.i + 1),
                  IF arg.i + 1 < arg.to THEN "turn" ELSE "finished")
    /\ arg' = [arg EXCEPT !.i = arg.i + 1]

\* The writer takes the loop up on the node the reader has filled.
LoopWrite ==
    /\ pc \in {"broke", "finished"}
    /\ arg.mode = "reader"
    /\ arg' = [arg EXCEPT !.mode = "writer", !.i = 0]
    /\ pc' = LoopStart(arg)
    /\ res' = NoTurn(arg', reader, node)
    /\ UNCHANGED <<overflow_checks, bitstream, reader, writer, node, text>>

LoopNext == ModificationTurn \/ MarkingTurn \/ ForTurn \/ LoopWrite

SpecLoops == LoopInit /\ [][LoopNext]_vars

\* C20 as stated: every iteration of a loop of the traversal that goes on or
\* ends without a fatal error has used up at least one bit of the reader's
\* buffer or popped at least one child of the writer's node.
C20_EveryTurnConsumesAsStated ==
    (res.turns > 0 /\ pc # "panicked") => res.after < res.before

====
